---- MODULE Spec2Model ----
(***************************************************************************)
(* A model of the ADDIS anomaly-detection core:                            *)
(*   - GHCNFlagHandler (ghcn_flag_handler.py): the flag tables and the     *)
(*     quality score derived from a (mflag, qflag, sflag) triplet;         *)
(*   - ComprehensiveAnomalyDetector (comprehensive_anomaly_detector.py):   *)
(*     the windowed baseline, the z-score classifier and the per-station   *)
(*     analysis loop;                                                      *)
(*   - GHCNFlagHandler.parse_flags: the attribute string and its triplet;  *)
(*   - EnhancedWeatherAnomalyDetector (enhanced_weather_anomaly_           *)
(*     detector.py): the QA audit suite, and the lifecycle of the outlier  *)
(*     ensemble (preprocess, train, detect, save, load);                   *)
(*   - app.py: the /api/anomaly-detection handler and its global detector, *)
(*     for one request at a time and for two requests that overlap;        *)
(*   - GHCNFlagHandler.get_source_priority and is_high_quality_source;     *)
(*   - demo_app.py: calculate_station_baseline.                            *)
(*                                                                         *)
(* Numbers.  The program computes in floating point.  The model computes   *)
(* exactly: an observation is an integer (or NaN), a mean is a fraction    *)
(* num/den, and a standard deviation is kept as its square (a fraction),   *)
(* so every comparison the code makes on z = (value - mean) / std is       *)
(* decided on integers.  Rounding of the floating-point operations is not  *)
(* modelled.                                                               *)
(***************************************************************************)
EXTENDS Integers, Sequences, FiniteSets, TLC

VARIABLES
    \* GHCNFlagHandler.calculate_quality_score: its arguments and its result
    triplet, score,
    \* ComprehensiveAnomalyDetector.detect_element_anomaly: arguments, result
    value, baseline, element, confidence_threshold, anomaly,
    \* calculate_element_baseline / detect_comprehensive_anomalies:
    \* the observation table, the date under test, the request and its result
    data, target_date, request, results,
    \* element_data: the sample of the last calculate_element_baseline call;
    \* sampled: the rows that entered a baseline sample during the last
    \* detect_comprehensive_anomalies call
    element_data, sampled,
    \* GHCNFlagHandler.parse_flags: its argument and what the call returned
    attribute, parsed,
    \* comprehensive_qa_check: the table and neighbour table audited, and the
    \* report returned
    audited, qa_report,
    \* EnhancedWeatherAnomalyDetector: the attributes of one detector, the
    \* model directory on disk, and the last call made on the detector (its
    \* arguments and what it returned)
    detector, disk, call,
    \* app.py: the weather table loaded at start-up (the global detector is
    \* `detector`, the last request and its response are in `call`)
    us_weather_data,
    \* GHCNFlagHandler.get_source_priority / is_high_quality_source: two source
    \* flags, and what the two methods return for each
    sflags, ranked,
    \* demo_app.calculate_station_baseline: the station table, the target date,
    \* the rows drawn for the baseline (baseline_data) and the value returned
    historical_data, station_date, station_sample, station_baseline,
    \* app.py under the threaded server: the /api/anomaly-detection requests in
    \* flight, each with its position in the handler and its local variables
    inflight

vars == <<triplet, score, value, baseline, element, confidence_threshold,
          anomaly, data, target_date, request, results, element_data, sampled,
          attribute, parsed, audited, qa_report, detector, disk, call,
          us_weather_data,
          sflags, ranked,
          historical_data, station_date, station_sample, station_baseline,
          inflight>>

flagVars == <<triplet, score>>
classifyVars == <<value, baseline, element, confidence_threshold, anomaly>>
tableVars == <<data, target_date, request, results, element_data, sampled>>
parseVars == <<attribute, parsed>>
qaVars == <<audited, qa_report>>
detectorVars == <<detector, disk, call>>
appVars == <<us_weather_data>>
sourceVars == <<sflags, ranked>>
concurrentVars == <<inflight>>
stationVars == <<historical_data, station_date, station_sample,
                 station_baseline>>

(***************************************************************************)
(* Python values                                                           *)
(***************************************************************************)

\* Python's None, and the marker of a call that has not returned yet.
None == [tag |-> "None"]
Pending == [tag |-> "pending"]

\* A float: a number or NaN (a missing reading).
Float(v) == [nan |-> FALSE, v |-> v]
NaN == [nan |-> TRUE, v |-> 0]
isna(x) == x.nan

Max(a, b) == IF a >= b THEN a ELSE b
Abs(a) == IF a >= 0 THEN a ELSE -a

(***************************************************************************)
(* GHCNFlagHandler                                                         *)
(***************************************************************************)

\* The keys of self.measurement_flags.
measurement_flags == {"", "B", "D", "H", "K", "L", "O", "P", "T", "W"}

\* The keys of self.quality_flags.
quality_flags ==
    {"", "D", "G", "I", "K", "L", "M", "N", "O", "R", "S", "T", "W", "X", "Z"}

\* The keys of self.source_flags.
source_flags ==
    {"", "0", "6", "7", "A", "a", "B", "b", "C", "D", "d", "E", "F", "G", "H",
     "I", "K", "M", "f", "m", "N", "Q", "R", "r", "S", "s", "T", "U", "u",
     "W", "X", "Z", "z"}

\* self.source_priority, highest priority first.
source_priority ==
    <<"Z", "R", "D", "0", "6", "C", "X", "W", "K", "7", "F", "B", "M", "f",
      "m", "r", "E", "z", "u", "b", "s", "a", "G", "Q", "I", "A", "N", "T",
      "U", "H", "S">>

\* The list high_quality_sources of is_high_quality_source.
high_quality_sources ==
    {"R", "D", "0", "6", "C", "X", "W", "K", "7", "F", "B", "M"}

\* return qflag != '' and qflag in self.quality_flags
is_quality_issue(qflag) == qflag # "" /\ qflag \in quality_flags

\* return sflag in high_quality_sources
is_high_quality_source(sflag) == sflag \in high_quality_sources

\* get_source_priority(sflag): self.source_priority.index(sflag), counted
\* from 0, and len(self.source_priority) when index raises ValueError.
get_source_priority(sflag) ==
    IF \E i \in 1..Len(source_priority) : source_priority[i] = sflag
    THEN (CHOOSE i \in 1..Len(source_priority) :
             /\ source_priority[i] = sflag
             /\ \A j \in 1..(i - 1) : source_priority[j] # sflag) - 1
    ELSE Len(source_priority)

\* The deduction of the if / elif chain on qflag.
quality_deduction(qflag) ==
    IF is_quality_issue(qflag)
    THEN IF qflag \in {"D", "G", "I", "K", "L"} THEN 10
         ELSE IF qflag \in {"M", "N", "O", "R", "S", "T"} THEN 25
         ELSE IF qflag \in {"W", "X", "Z"} THEN 50
         ELSE 0
    ELSE 0

\* A slip in the source test: the penalty lands on the allow-listed sources.
calculate_quality_score_inverted(mflag, qflag, sflag) ==
    LET s1 == 100 - quality_deduction(qflag)
        s2 == IF is_high_quality_source(sflag) THEN s1 - 15 ELSE s1
        s3 == IF mflag \in {"T"} THEN s2 - 5
              ELSE IF mflag \in {"P"} THEN s2 - 20
              ELSE s2
    IN  Max(0, s3)

\* A slip in the measurement test: 'P' is charged like a trace value.
calculate_quality_score_flat(mflag, qflag, sflag) ==
    LET s1 == 100 - quality_deduction(qflag)
        s2 == IF ~is_high_quality_source(sflag) THEN s1 - 15 ELSE s1
        s3 == IF mflag \in {"T", "P"} THEN s2 - 5 ELSE s2
    IN  Max(0, s3)

\* score = 100.0, the three deductions in turn, return max(0.0, score)
calculate_quality_score(mflag, qflag, sflag) ==
    LET s1 == 100 - quality_deduction(qflag)
        s2 == IF ~is_high_quality_source(sflag) THEN s1 - 15 ELSE s1
        s3 == IF mflag \in {"T"} THEN s2 - 5
              ELSE IF mflag \in {"P"} THEN s2 - 20
              ELSE s2
    IN  Max(0, s3)

\* Flag values a caller can pass: every key of the three tables, and for
\* each field one value no table knows ("?" and the two-character "AB").
MFlagInputs == measurement_flags \cup {"?"}
QFlagInputs == quality_flags \cup {"?", "AB"}
SFlagInputs == source_flags \cup {"?", "1"}

FlagIdle == /\ triplet = [mflag |-> "", qflag |-> "", sflag |-> ""]
            /\ score = Pending

InitFlags ==
    /\ triplet \in [mflag : MFlagInputs, qflag : QFlagInputs, sflag : SFlagInputs]
    /\ score = Pending

\* One call handler.calculate_quality_score(mflag, qflag, sflag).
CalculateQualityScore ==
    /\ score = Pending
    /\ score' = [tag |-> "score",
                 v |-> calculate_quality_score(triplet.mflag, triplet.qflag,
                                               triplet.sflag)]
    /\ UNCHANGED triplet

(***************************************************************************)
(* Exact arithmetic                                                        *)
(***************************************************************************)

\* The fraction n / d, d > 0.
Frac(n, d) == [num |-> n, den |-> d]

Sign(a) == IF a > 0 THEN 1 ELSE IF a < 0 THEN -1 ELSE 0

\* A z-score: NaN, or the number sgn * sqrt(sq.num / sq.den).
ZNaN == [nan |-> TRUE, sgn |-> 0, sq |-> Frac(0, 1)]

\* abs(z) > k and abs(z) >= k for a fraction k; a comparison with NaN is
\* false, as in Python.
AbsGT(z, k) ==
    /\ ~z.nan
    /\ \/ k.num < 0
       \/ z.sq.num * k.den * k.den > k.num * k.num * z.sq.den

AbsGE(z, k) ==
    /\ ~z.nan
    /\ \/ k.num <= 0
       \/ z.sq.num * k.den * k.den >= k.num * k.num * z.sq.den

(***************************************************************************)
(* ComprehensiveAnomalyDetector: the classifier                            *)
(***************************************************************************)

\* The element groups of __init__ that generate_element_explanation reads.
temperature_elements == {"TMAX", "TMIN", "TAVG", "ADPT"}
precipitation_elements ==
    {"PRCP", "SNOW", "SNWD", "WESD", "WESF", "DAPR", "MDPR", "EVAP"}
wind_elements == {"AWND", "WSFG", "WSF1", "WSF2", "WSF5", "WSFI", "WSFM"}

\* The bucket get_frequency_description picks for abs(z).
get_frequency_description(z) ==
    IF AbsGE(z, Frac(3, 1)) THEN "less than 0.3% of the time"
    ELSE IF AbsGE(z, Frac(2, 1)) THEN "about 2.3% of the time"
    ELSE IF AbsGE(z, Frac(3, 2)) THEN "about 6.7% of the time"
    ELSE IF AbsGE(z, Frac(1, 1)) THEN "about 15.9% of the time"
    ELSE "about 31.7% of the time"

\* The explanation text, kept as the template chosen and what it embeds.
generate_element_explanation(elem, val, z, base, anomaly_type, severity) ==
    [template |-> IF elem \in temperature_elements THEN "temperature"
                  ELSE IF elem \in precipitation_elements THEN "precipitation"
                  ELSE IF elem \in wind_elements THEN "wind"
                  ELSE "generic",
     anomaly_type |-> anomaly_type,
     severity |-> severity,
     value |-> val,
     mean |-> base.mean,
     std |-> base.std,
     frequency |-> get_frequency_description(z)]

\* z_score = (value - baseline['mean']) / baseline['std'], for std > 0.
\* A NaN value gives a NaN z-score.
z_score_of(val, base) ==
    IF isna(val) THEN ZNaN
    ELSE LET d == val.v * base.mean.den - base.mean.num
         IN  [nan |-> FALSE,
              sgn |-> Sign(d),
              sq |-> Frac(d * d * base.std.sq.den,
                          base.mean.den * base.mean.den * base.std.sq.num)]

\* A slip in the test: the threshold itself already counts as anomalous.
exceeds_threshold_nonstrict(z, threshold) == AbsGE(z, threshold)

\* if abs(z_score) > confidence_threshold
exceeds_threshold(z, threshold) == AbsGT(z, threshold)

\* A slip in the direction: a value above the mean is reported Low.
anomaly_type_swapped(z) == IF z.sgn > 0 THEN "Low" ELSE "High"

\* if z_score > 0: anomaly_type = "High"  else: anomaly_type = "Low"
anomaly_type_of(z) == IF z.sgn > 0 THEN "High" ELSE "Low"

\* A slip in the tiers: the breakpoints themselves fall in the upper tier.
severity_inclusive(z) ==
    IF AbsGE(z, Frac(3, 1)) THEN "extreme"
    ELSE IF AbsGE(z, Frac(2, 1)) THEN "moderate"
    ELSE "mild"

\* "extreme" if abs(z_score) > 3 else "moderate" if abs(z_score) > 2 else "mild"
\* (the same expression in both branches of the direction test)
severity_of(z) ==
    IF AbsGT(z, Frac(3, 1)) THEN "extreme"
    ELSE IF AbsGT(z, Frac(2, 1)) THEN "moderate"
    ELSE "mild"

\* The record detect_element_anomaly returns for an anomalous value.
AnomalyRecord(val, base, elem, threshold, z) ==
    [tag |-> "anomaly",
     element |-> elem,
     value |-> val,
     z_score |-> z,
     anomaly_type |-> anomaly_type_of(z),
     severity |-> severity_of(z),
     explanation |-> generate_element_explanation(elem, val, z, base,
                         anomaly_type_of(z), severity_of(z)),
     baseline |-> base,
     \* threshold = confidence_threshold * baseline['std'], kept squared
     threshold |-> [sq |-> Frac(threshold.num * threshold.num * base.std.sq.num,
                                threshold.den * threshold.den * base.std.sq.den)]]

\* A slip in the guard and the test: no early return, and the test written
\* as "not abs(z_score) <= confidence_threshold", which NaN passes.
detect_element_anomaly_unguarded(val, base, elem, threshold) ==
    IF base = None THEN None
    ELSE LET z == z_score_of(val, base)
         IN  IF z.nan \/ exceeds_threshold(z, threshold)
             THEN AnomalyRecord(val, base, elem, threshold, z)
             ELSE None

\* detect_element_anomaly(value, baseline, element, confidence_threshold)
detect_element_anomaly(val, base, elem, threshold) ==
    IF isna(val) \/ base = None THEN None
    ELSE LET z == z_score_of(val, base)
         IN  IF exceeds_threshold(z, threshold)
             THEN AnomalyRecord(val, base, elem, threshold, z)
             ELSE None

(***************************************************************************)
(* ComprehensiveAnomalyDetector: the baseline                              *)
(*                                                                         *)
(* The table `data` is a sequence of rows [STATION, DATE, val]: DATE is a  *)
(* day number and val the reading in the one element column the table      *)
(* holds (the column named by `element`), NaN when it is missing.          *)
(***************************************************************************)

\* timedelta(days=30), the half-width of the baseline period.
BaselineDays == 30

\* "Need at least 5 valid readings".
MinReadings == 5

RECURSIVE SumSeq(_)
SumSeq(s) == IF s = <<>> THEN 0 ELSE Head(s) + SumSeq(Tail(s))

\* The values of a sequence of rows.
Vals(rows) == [i \in 1..Len(rows) |-> rows[i].val.v]

\* A slip in the filter: the row under test stays in its own baseline.
in_baseline_period_with_target(date, target) ==
    /\ date >= target - BaselineDays
    /\ date <= target + BaselineDays

\* (DATE >= baseline_start) & (DATE <= baseline_end) & (DATE != target_date)
in_baseline_period(date, target) ==
    /\ date >= target - BaselineDays
    /\ date <= target + BaselineDays
    /\ date # target

\* baseline_data: the rows of the table in the baseline period.
baseline_data_of(tbl, target) ==
    SelectSeq(tbl, LAMBDA r : in_baseline_period(r.DATE, target))

\* element_data = baseline_data[element].dropna(), each reading kept with its
\* row; empty when the function returns before it is computed.
element_data_of(tbl, elem, target) ==
    SelectSeq(baseline_data_of(tbl, target), LAMBDA r : ~isna(r.val))

\* Series.quantile(q) with linear interpolation, for q = k/4, as a fraction
\* over 4: position (n - 1) * k / 4 in the sorted readings.
Quantile4(sorted, k) ==
    LET pos4 == (Len(sorted) - 1) * k
        lo == (pos4 \div 4) + 1
        r == pos4 % 4
    IN  IF r = 0 THEN Frac(4 * sorted[lo], 4)
        ELSE Frac(4 * sorted[lo] + r * (sorted[lo + 1] - sorted[lo]), 4)

\* The dictionary calculate_element_baseline returns for readings xs:
\* mean, sample standard deviation (ddof = 1, kept squared), and the rest.
BaselineRecord(xs) ==
    LET n == Len(xs)
        sum == SumSeq(xs)
        sumsq == SumSeq([i \in 1..n |-> xs[i] * xs[i]])
        sorted == SortSeq(xs, LAMBDA a, b : a < b)
    IN  [tag |-> "baseline",
         mean |-> Frac(sum, n),
         std |-> [sq |-> Frac(n * sumsq - sum * sum, n * (n - 1))],
         sample_size |-> n,
         min |-> sorted[1],
         max |-> sorted[n],
         percentile_25 |-> Quantile4(sorted, 1),
         percentile_75 |-> Quantile4(sorted, 3)]

\* A slip: the "std_val == 0" return is missing.
calculate_element_baseline_no_std_check(tbl, elem, target) ==
    LET xs == Vals(element_data_of(tbl, elem, target))
    IN  IF baseline_data_of(tbl, target) = <<>> THEN None
        ELSE IF Len(xs) < MinReadings THEN None
        ELSE BaselineRecord(xs)

\* calculate_element_baseline(data, element, target_date)
calculate_element_baseline(tbl, elem, target) ==
    LET xs == Vals(element_data_of(tbl, elem, target))
    IN  IF baseline_data_of(tbl, target) = <<>> THEN None
        ELSE IF Len(xs) < MinReadings THEN None
        ELSE IF BaselineRecord(xs).std.sq.num = 0 THEN None
        ELSE BaselineRecord(xs)

(***************************************************************************)
(* ComprehensiveAnomalyDetector: the analysis of one station               *)
(***************************************************************************)

\* target_date.strftime('%Y-%m-%d'): the day as an ISO-8601 string.
strftime(day) == [format |-> "%Y-%m-%d", day |-> day]

\* get_available_elements: the analysable columns of a table, in the
\* order the method appends them.
get_available_elements(columns) ==
    SelectSeq(<<"TMAX_F", "TMIN_F", "TAVG_F", "ADPT_F">>,
              LAMBDA c : c \in columns)
    \o (IF "PRCP_IN" \in columns THEN <<"PRCP_IN">>
        ELSE IF "PRCP" \in columns THEN <<"PRCP">>
        ELSE <<>>)
    \o SelectSeq(<<"SNOW", "SNWD", "WESD", "WESF", "DAPR", "MDPR", "EVAP",
                   "AWND", "WSFG", "ASLP", "RHAV", "PSUN", "TSUN">>,
                 LAMBDA c : c \in columns)

\* The body of the loop over analysis_data for one row: the anomaly
\* appended to element_anomalies, or None when the row adds nothing.
row_anomaly(tbl, row, elem, station_id, threshold) ==
    LET base == calculate_element_baseline(tbl, elem, row.DATE)
    IN  IF base = None THEN None
        ELSE LET a == detect_element_anomaly(row.val, base, elem, threshold)
             IN  IF a = None THEN None
                 ELSE [DATE |-> strftime(row.DATE), STATION |-> station_id] @@ a

\* element_anomalies after the loop over the rows of analysis_data.
RECURSIVE element_anomalies_of(_, _, _, _, _)
element_anomalies_of(tbl, rows, elem, station_id, threshold) ==
    IF rows = <<>> THEN <<>>
    ELSE LET a == row_anomaly(tbl, Head(rows), elem, station_id, threshold)
             rest == element_anomalies_of(tbl, Tail(rows), elem, station_id,
                                          threshold)
         IN  IF a = None THEN rest ELSE <<a>> \o rest

\* all_anomalies after the loop over available_elements.
RECURSIVE all_anomalies_of(_, _, _, _, _)
all_anomalies_of(tbl, rows, elems, station_id, threshold) ==
    IF elems = <<>> THEN <<>>
    ELSE element_anomalies_of(tbl, rows, Head(elems), station_id, threshold)
         \o all_anomalies_of(tbl, rows, Tail(elems), station_id, threshold)

\* all_anomalies.sort(key=lambda x: x['DATE']): a stable sort.
RECURSIVE InsertByDate(_, _)
InsertByDate(a, s) ==
    IF s = <<>> THEN <<a>>
    ELSE IF Head(s).DATE.day <= a.DATE.day
         THEN <<Head(s)>> \o InsertByDate(a, Tail(s))
         ELSE <<a>> \o s

RECURSIVE SortByDate(_)
SortByDate(s) ==
    IF s = <<>> THEN <<>>
    ELSE InsertByDate(s[Len(s)], SortByDate(SubSeq(s, 1, Len(s) - 1)))

\* element_summaries[element], present when the element has a reading in
\* the analysis period; the std of a single reading is NaN.
element_summary(rows, anomalies) ==
    LET xs == Vals(SelectSeq(rows, LAMBDA r : ~isna(r.val)))
        n == Len(xs)
        sum == SumSeq(xs)
        sumsq == SumSeq([i \in 1..n |-> xs[i] * xs[i]])
        sorted == SortSeq(xs, LAMBDA a, b : a < b)
    IN  IF xs = <<>> THEN None
        ELSE [tag |-> "summary",
              total_records |-> n,
              anomalies_detected |-> Len(anomalies),
              mean |-> Frac(sum, n),
              std |-> IF n = 1 THEN [nan |-> TRUE, sq |-> Frac(0, 1)]
                      ELSE [nan |-> FALSE,
                            sq |-> Frac(n * sumsq - sum * sum, n * (n - 1))],
              min |-> sorted[1],
              max |-> sorted[n]]

\* A slip in the filter: the period has no lower end.
analysis_data_of_open_start(tbl, req) ==
    SelectSeq(tbl, LAMBDA r : r.DATE <= req.end_date)

\* The analysis period of the request:
\* (data['DATE'] >= start_dt) & (data['DATE'] <= end_dt)
analysis_data_of(tbl, req) ==
    SelectSeq(tbl, LAMBDA r : r.DATE >= req.start_date /\ r.DATE <= req.end_date)

\* detect_comprehensive_anomalies(data, station_id, start_date, end_date,
\* confidence_threshold) on a table whose element column is elem.
detect_comprehensive_anomalies(tbl, elem, req) ==
    LET analysis_data == analysis_data_of(tbl, req)
        available_elements == get_available_elements({"STATION", "DATE", elem})
        all_anomalies ==
            SortByDate(all_anomalies_of(tbl, analysis_data, available_elements,
                                        req.station_id, req.confidence_threshold))
    IN  IF analysis_data = <<>>
        THEN [tag |-> "error",
              error |-> "No data found for station in the specified date range",
              station_id |-> req.station_id,
              date_range |-> <<req.start_date, req.end_date>>]
        ELSE IF available_elements = <<>>
        THEN [tag |-> "error",
              error |-> "No analyzable weather elements found for this station",
              station_id |-> req.station_id]
        ELSE [tag |-> "report",
              summary |->
                  [station_id |-> req.station_id,
                   analysis_period |-> <<req.start_date, req.end_date>>,
                   total_records |-> Len(analysis_data),
                   total_anomalies |-> Len(all_anomalies),
                   elements_analyzed |-> available_elements,
                   elements_with_anomalies |->
                       {all_anomalies[i].element : i \in 1..Len(all_anomalies)},
                   confidence_threshold |-> req.confidence_threshold,
                   data_source |-> "NCEI Dynamic Fetch"],
              element_summaries |->
                  [e \in {available_elements[i] : i \in 1..Len(available_elements)}
                      |-> element_summary(analysis_data,
                              element_anomalies_of(tbl, analysis_data, e,
                                  req.station_id, req.confidence_threshold))],
              anomalies |-> [comprehensive |->
                                [anomalies |-> all_anomalies,
                                 total |-> Len(all_anomalies)]]]

\* The rows that enter a baseline the call classifies a row against: the
\* union, over the rows of analysis_data whose baseline is not None, of the
\* element_data of calculate_element_baseline(data, element, row.DATE).
sampled_rows_of(tbl, elem, req) ==
    IF get_available_elements({"STATION", "DATE", elem}) = <<>> THEN {}
    ELSE LET analysis_data == analysis_data_of(tbl, req)
             used == {i \in 1..Len(analysis_data) :
                        calculate_element_baseline(tbl, elem,
                            analysis_data[i].DATE) # None}
         IN  UNION { LET ed == element_data_of(tbl, elem, analysis_data[i].DATE)
                     IN  {ed[j] : j \in 1..Len(ed)}
                     : i \in used }

(***************************************************************************)
(* Inputs                                                                  *)
(***************************************************************************)

\* Readings of the classifier run over 0..MaxValue, readings of a table
\* over 1..MaxReading.
MaxValue == 85
MaxReading == 2

StationA == "USW00014739"
StationB == "USW00094728"

\* A baseline as a caller hands it to detect_element_anomaly: mean m, std s.
GivenBaseline(m, s) ==
    [tag |-> "baseline", mean |-> Frac(m, 1), std |-> [sq |-> Frac(s * s, 1)]]

ValueInputs == {NaN} \cup {Float(v) : v \in 0..MaxValue}
BaselineInputs ==
    {None, GivenBaseline(50, 10), GivenBaseline(50, 5), GivenBaseline(20, 7)}
ThresholdInputs == {Frac(-1, 1), Frac(1, 1), Frac(2, 1), Frac(5, 2), Frac(3, 1)}
ElementInputs == {"TMAX", "TMAX_F", "PRCP", "AWND", "ASLP"}

\* A table over a grid of days: each day has no row, or one row.
Absent == [absent |-> TRUE]

RECURSIVE TableOf(_, _, _)
TableOf(grid, cells, i) ==
    IF i > Len(grid) THEN <<>>
    ELSE (IF cells[i] = Absent THEN <<>>
          ELSE <<[STATION |-> cells[i].STATION, DATE |-> grid[i],
                  val |-> cells[i].val]>>)
         \o TableOf(grid, cells, i + 1)

TablesOver(grid, options) ==
    {TableOf(grid, cells, 1) : cells \in [1..Len(grid) -> options]}

\* Days on both sides of both ends of the baseline period of the targets.
BaselineGrid ==
    <<1, 2, BaselineDays, BaselineDays + 1, BaselineDays + 2,
      2 * BaselineDays + 1, 2 * BaselineDays + 2>>
TargetInputs == {BaselineDays + 1, BaselineDays + 2}
BaselineCells ==
    {Absent, [STATION |-> StationA, val |-> NaN]}
    \cup {[STATION |-> StationA, val |-> Float(v)] : v \in 1..MaxReading}

\* A week of days, with rows of the station analysed and of another one.
StationGrid == <<1, 2, 3, 4, 5, 6>>
StationCells ==
    {Absent, [STATION |-> StationB, val |-> Float(MaxReading)]}
    \cup {[STATION |-> StationA, val |-> Float(v)] : v \in 1..MaxReading}
RequestInputs ==
    [station_id : {StationA},
     start_date : {1, 3, 7}, end_date : {6},
     confidence_threshold : {Frac(1, 1), Frac(3, 2)}]
ColumnInputs == {"TMAX_F", "TMAX"}

(***************************************************************************)
(* GHCNFlagHandler.parse_flags                                             *)
(*                                                                         *)
(* A Python string is a sequence of one-character strings, so that strip   *)
(* and split act on it as they do in Python.  The argument of parse_flags  *)
(* is None, a str, an int [type, n] or a float [type, kind, num, den] (the *)
(* values a pandas column holds): kind is "finite" for num / den, "nan" or *)
(* "inf".                                                                  *)
(***************************************************************************)

PyStr(s) == [type |-> "str", s |-> s]

\* pd.isna(obj) for a scalar: None and NaN are missing.
pd_isna(obj) == obj = None \/ (obj.type = "float" /\ obj.kind = "nan")

\* isinstance(obj, (int, float))
is_number(obj) == obj # None /\ obj.type \in {"int", "float"}

\* str.strip(): the string without its leading and trailing blanks.
strip(s) ==
    LET kept == {i \in 1..Len(s) : s[i] # " "}
    IN  IF kept = {} THEN <<>>
        ELSE SubSeq(s, CHOOSE i \in kept : \A j \in kept : i <= j,
                       CHOOSE i \in kept : \A j \in kept : i >= j)

\* str.split(sep): the pieces between the separators, empty ones included.
RECURSIVE split(_, _)
split(s, sep) ==
    IF \A i \in 1..Len(s) : s[i] # sep THEN <<s>>
    ELSE LET i == CHOOSE j \in 1..Len(s) :
                      s[j] = sep /\ \A k \in 1..(j - 1) : s[k] # sep
         IN  <<SubSeq(s, 1, i - 1)>> \o split(SubSeq(s, i + 1, Len(s)), sep)

\* int(x): an int is itself, a finite float is truncated toward zero.
int(x) ==
    IF x.type = "int" THEN x.n
    ELSE IF x.num >= 0 THEN x.num \div x.den
    ELSE -((-x.num) \div x.den)

\* str(n) for an integer n: its decimal digits, with a sign when negative.
RECURSIVE str(_)
str(n) ==
    LET digit == <<"0", "1", "2", "3", "4", "5", "6", "7", "8", "9">>
    IN  IF n < 0 THEN <<"-">> \o str(-n)
        ELSE IF n < 10 THEN <<digit[n + 1]>>
        ELSE str(n \div 10) \o <<digit[(n % 10) + 1]>>

\* What a call returns: the dictionary, or the exception it raises.
FlagDict(mflag, qflag, sflag) ==
    [tag |-> "dict", mflag |-> mflag, qflag |-> qflag, sflag |-> sflag]
Raise(exc) == [tag |-> "raise", exc |-> exc]

\* A slip in the unpacking: the second and third field change places.
parse_flags_swapped(attribute_string) ==
    IF pd_isna(attribute_string) \/ attribute_string = PyStr(<<>>)
    THEN FlagDict(<<>>, <<>>, <<>>)
    ELSE IF is_number(attribute_string)
    THEN IF attribute_string.type = "float" /\ attribute_string.kind = "inf"
         THEN Raise("OverflowError")
         ELSE FlagDict(<<>>, <<>>, str(int(attribute_string)))
    ELSE LET stripped == strip(attribute_string.s)
             parts == split(stripped, ",")
         IN  IF \E i \in 1..Len(stripped) : stripped[i] = ","
             THEN FlagDict(IF Len(parts) > 0 THEN strip(parts[1]) ELSE <<>>,
                           IF Len(parts) > 2 THEN strip(parts[3]) ELSE <<>>,
                           IF Len(parts) > 1 THEN strip(parts[2]) ELSE <<>>)
             ELSE FlagDict(<<>>, <<>>, stripped)

\* parse_flags(attribute_string).  int(float('inf')) raises OverflowError;
\* nothing in the method catches it.
parse_flags(attribute_string) ==
    IF pd_isna(attribute_string) \/ attribute_string = PyStr(<<>>)
    THEN FlagDict(<<>>, <<>>, <<>>)
    ELSE IF is_number(attribute_string)
    THEN IF attribute_string.type = "float" /\ attribute_string.kind = "inf"
         THEN Raise("OverflowError")
         ELSE FlagDict(<<>>, <<>>, str(int(attribute_string)))
    ELSE LET stripped == strip(attribute_string.s)
             parts == split(stripped, ",")
         IN  IF \E i \in 1..Len(stripped) : stripped[i] = ","
             THEN FlagDict(IF Len(parts) > 0 THEN strip(parts[1]) ELSE <<>>,
                           IF Len(parts) > 1 THEN strip(parts[2]) ELSE <<>>,
                           IF Len(parts) > 2 THEN strip(parts[3]) ELSE <<>>)
             ELSE FlagDict(<<>>, <<>>, stripped)

\* 'ATTRIBUTES': f"{mflag},{qflag},{sflag}" -- the attribute string the
\* station readers write from three flag fields.
ATTRIBUTES(mflag, qflag, sflag) == mflag \o <<",">> \o qflag \o <<",">> \o sflag

\* The arguments: every string of at most MaxAttrLen characters over four
\* flag characters, the comma and the blank; None and NaN; and numbers:
\* source codes as a numeric column holds them (6, 6.0), a float with a
\* fraction, a negative one, and the infinity that read_csv parses.
MaxAttrLen == 5
AttributeInputs ==
    LET PyInt(n) == [type |-> "int", n |-> n]
        PyFloat(kind, num, den) ==
            [type |-> "float", kind |-> kind, num |-> num, den |-> den]
    IN  {None, PyFloat("nan", 0, 1), PyFloat("inf", 1, 1), PyInt(0), PyInt(6),
         PyInt(12), PyFloat("finite", 6, 1), PyFloat("finite", 13, 2),
         PyFloat("finite", -3, 2)}
        \cup {PyStr(s) : s \in UNION {[1..n -> {"B", "D", "0", "S", ",", " "}] :
                                        n \in 0..MaxAttrLen}}

(***************************************************************************)
(* EnhancedWeatherAnomalyDetector: the QA audit suite                      *)
(*                                                                         *)
(* A table df is a record [rows, DATE, meta]: rows is the sequence of its  *)
(* rows [TMAX, TMIN, PRCP] in raw units (tenths of a degree Celsius,       *)
(* tenths of a millimetre; NaN when missing), DATE is the form of its DATE *)
(* column and meta the metadata columns that are present and not all null. *)
(* The TMAX, TMIN and PRCP columns are always present, as every reader of  *)
(* the weather file takes them to be.  A finding is a record naming the    *)
(* check, the column and the count the message embeds.                     *)
(***************************************************************************)

Finding(check, column, count) ==
    [check |-> check, column |-> column, count |-> count]

\* series.dropna()
dropna(series) == SelectSeq(series, LAMBDA x : ~isna(x))

\* The findings a loop appends, given the list each iteration appends.
RECURSIVE Flatten(_)
Flatten(lists) ==
    IF lists = <<>> THEN <<>> ELSE Head(lists) \o Flatten(Tail(lists))

\* pd.to_datetime(df['DATE'], format='%m-%d-%Y') succeeds on strings in that
\* format, on a column that already holds datetimes, and on an empty column.
to_datetime_ok(df) ==
    df.rows = <<>> \/ df.DATE \in {"%m-%d-%Y", "datetime64"}

\* format_checking(df).  A metadata column is missing when it is not in
\* df.columns or df[col].isna().all(), and all() of an empty column is True.
format_checking(df) ==
    LET temp_cols == <<"TMAX", "TMIN">>
        required_meta == <<"STATION", "LATITUDE", "LONGITUDE", "NAME">>
        invalid_temps(col) ==
            {i \in 1..Len(df.rows) :
                ~isna(df.rows[i][col])
                /\ (df.rows[i][col].v < -999 \/ df.rows[i][col].v > 999)}
        invalid_prcp ==
            {i \in 1..Len(df.rows) :
                ~isna(df.rows[i].PRCP) /\ df.rows[i].PRCP.v < 0}
    IN  (IF to_datetime_ok(df) THEN <<>>
         ELSE <<Finding("format", "DATE", 0)>>)
        \o Flatten([k \in 1..2 |->
               IF Cardinality(invalid_temps(temp_cols[k])) > 0
               THEN <<Finding("format", temp_cols[k], 0)>> ELSE <<>>])
        \o (IF Cardinality(invalid_prcp) > 0
            THEN <<Finding("format", "PRCP", 0)>> ELSE <<>>)
        \o Flatten([k \in 1..4 |->
               IF required_meta[k] \notin df.meta \/ df.rows = <<>>
               THEN <<Finding("format", required_meta[k], 0)>> ELSE <<>>])

\* physical_limits_check(df)
physical_limits_check(df) ==
    LET temp_cols == <<"TMAX", "TMIN">>
        temp_limits ==
            [TMAX |-> [min_val |-> -999, max_val |-> 600],
             TMIN |-> [min_val |-> -999, max_val |-> 500]]
        violations(col) ==
            Cardinality({i \in 1..Len(df.rows) :
                ~isna(df.rows[i][col])
                /\ (df.rows[i][col].v < temp_limits[col].min_val
                    \/ df.rows[i][col].v > temp_limits[col].max_val)})
        prcp_violations ==
            Cardinality({i \in 1..Len(df.rows) :
                ~isna(df.rows[i].PRCP) /\ df.rows[i].PRCP.v > 2000})
    IN  Flatten([k \in 1..2 |->
            IF violations(temp_cols[k]) > 0
            THEN <<Finding("physical", temp_cols[k], violations(temp_cols[k]))>>
            ELSE <<>>])
        \o (IF prcp_violations > 0
            THEN <<Finding("physical", "PRCP", prcp_violations)>> ELSE <<>>)

\* df['TMAX'] / 10.0 * 9/5 + 32, in fiftieths of a degree Fahrenheit:
\* raw * 9 / 50 + 32 = (9 * raw + 1600) / 50.  NaN stays NaN.
to_fahrenheit(x) == IF isna(x) THEN NaN ELSE Float(9 * x.v + 1600)

\* abs(x - data.mean()) > 3 * data.std(), std with ddof = 1, for a value x
\* and the non-empty sequence of samples.  With n = len(data), S the sum and
\* Q the sum of squares, the test is (n x - S)^2 (n - 1) > 9 n (n Q - S^2).
\* The sums are taken of the differences to the first sample, which changes
\* neither side and keeps the integers small.
beyond_3_std(x, samples) ==
    LET n == Len(samples)
        c == samples[1].v
        S == SumSeq([i \in 1..n |-> samples[i].v - c])
        Q == SumSeq([i \in 1..n |-> (samples[i].v - c) * (samples[i].v - c)])
        d == n * (x.v - c) - S
    IN  d * d * (n - 1) > 9 * n * (n * Q - S * S)

\* climatological_limits_check(df): the columns TMAX_F and TMIN_F, named
\* here by the raw column each is computed from.
climatological_limits_check(df) ==
    LET temp_cols == <<"TMAX", "TMIN">>
    IN  Flatten([k \in 1..2 |->
            LET col == temp_cols[k]
                series == [i \in 1..Len(df.rows) |->
                              to_fahrenheit(df.rows[i][col])]
                samples == dropna(series)
                extreme_values ==
                    Cardinality({i \in 1..Len(series) :
                        ~isna(series[i]) /\ beyond_3_std(series[i], samples)})
            IN  IF Len(samples) > 30 /\ extreme_values > 0
                THEN <<Finding("climatological", col, extreme_values)>>
                ELSE <<>>])

\* The loop of temporal_persistence_check: consecutive_counts, the lengths
\* of the runs of equal values of the samples, in order.
RECURSIVE consecutive_counts(_, _, _)
consecutive_counts(samples, i, current_count) ==
    IF i > Len(samples) THEN <<current_count>>
    ELSE IF samples[i] = samples[i - 1]
    THEN consecutive_counts(samples, i + 1, current_count + 1)
    ELSE <<current_count>> \o consecutive_counts(samples, i + 1, 1)

\* temporal_persistence_check(df)
temporal_persistence_check(df) ==
    LET temp_cols == <<"TMAX", "TMIN">>
    IN  Flatten([k \in 1..2 |->
            LET col == temp_cols[k]
                samples == dropna([i \in 1..Len(df.rows) |-> df.rows[i][col]])
                counts == consecutive_counts(samples, 2, 1)
                max_consecutive ==
                    CHOOSE m \in {counts[i] : i \in 1..Len(counts)} :
                        \A i \in 1..Len(counts) : counts[i] <= m
            IN  IF Len(samples) > 10 /\ max_consecutive > 7
                THEN <<Finding("persistence", col, max_consecutive)>>
                ELSE <<>>])

\* A slip in the range test: the size of the difference is tested, so a day
\* with TMAX far below TMIN counts as an extreme range too.
internal_consistency_check_abs_range(df) ==
    LET both(r) == ~isna(r.TMAX) /\ ~isna(r.TMIN)
        inconsistent ==
            Cardinality({i \in 1..Len(df.rows) :
                both(df.rows[i]) /\ df.rows[i].TMAX.v < df.rows[i].TMIN.v})
        extreme_ranges ==
            Cardinality({i \in 1..Len(df.rows) :
                both(df.rows[i])
                /\ Abs(df.rows[i].TMAX.v - df.rows[i].TMIN.v) > 50 * 10})
    IN  (IF inconsistent > 0
         THEN <<Finding("consistency", "TMAX < TMIN", inconsistent)>>
         ELSE <<>>)
        \o (IF extreme_ranges > 0
            THEN <<Finding("consistency", "TEMP_RANGE", extreme_ranges)>>
            ELSE <<>>)

\* internal_consistency_check(df).  TMAX_C and TMIN_C are the raw values over
\* 10.0, so TMAX_C < TMIN_C is TMAX < TMIN and TEMP_RANGE > 50 is
\* TMAX - TMIN > 500; TEMP_RANGE is NaN when either reading is missing.
internal_consistency_check(df) ==
    LET both(r) == ~isna(r.TMAX) /\ ~isna(r.TMIN)
        inconsistent ==
            Cardinality({i \in 1..Len(df.rows) :
                both(df.rows[i]) /\ df.rows[i].TMAX.v < df.rows[i].TMIN.v})
        extreme_ranges ==
            Cardinality({i \in 1..Len(df.rows) :
                both(df.rows[i])
                /\ df.rows[i].TMAX.v - df.rows[i].TMIN.v > 50 * 10})
    IN  (IF inconsistent > 0
         THEN <<Finding("consistency", "TMAX < TMIN", inconsistent)>>
         ELSE <<>>)
        \o (IF extreme_ranges > 0
            THEN <<Finding("consistency", "TEMP_RANGE", extreme_ranges)>>
            ELSE <<>>)

\* neighbor_station_check(df, neighbor_data).  The neighbour table is kept as
\* what the check derives from it: whether a station lies within 0.675
\* degrees, and per column the average of the correlations it could compute
\* (None when there is none), a fraction.
neighbor_station_check(df, neighbor_data) ==
    LET temp_cols == <<"TMAX", "TMIN">>
    IN  IF neighbor_data = None THEN <<>>
        ELSE IF ~({"LATITUDE", "LONGITUDE"} \subseteq df.meta) THEN <<>>
        ELSE IF ~neighbor_data.nearby THEN <<>>
        ELSE Flatten([k \in 1..2 |->
                 LET col == temp_cols[k]
                     station_data ==
                         dropna([i \in 1..Len(df.rows) |-> df.rows[i][col]])
                     avg_correlation == neighbor_data.correlation[col]
                 IN  IF Len(station_data) > 30 /\ avg_correlation # None
                        /\ 10 * avg_correlation.num < 3 * avg_correlation.den
                     THEN <<Finding("neighbor", col, 0)>>
                     ELSE <<>>])

\* A slip in the penalty: the score is not floored at 0.
qa_score_unfloored(total_issues) == 100 - total_issues * 10

\* max(0, 100 - total_issues * 10)
qa_score_of(total_issues) == Max(0, 100 - total_issues * 10)

\* comprehensive_qa_check(df, neighbor_data)
comprehensive_qa_check(df, neighbor_data) ==
    LET format_issues == format_checking(df)
        physical_limits == physical_limits_check(df)
        climatological_limits == climatological_limits_check(df)
        temporal_persistence == temporal_persistence_check(df)
        internal_consistency == internal_consistency_check(df)
        neighbor_comparison == neighbor_station_check(df, neighbor_data)
        total_issues == Len(format_issues) + Len(physical_limits)
                        + Len(climatological_limits) + Len(temporal_persistence)
                        + Len(internal_consistency) + Len(neighbor_comparison)
    IN  [format_issues |-> format_issues,
         physical_limits |-> physical_limits,
         climatological_limits |-> climatological_limits,
         temporal_persistence |-> temporal_persistence,
         internal_consistency |-> internal_consistency,
         neighbor_comparison |-> neighbor_comparison,
         total_issues |-> total_issues,
         qa_score |-> qa_score_of(total_issues)]

\* A table from its temperature readings, its PRCP column (the first
\* reading and the others), the form of its dates and its metadata.
Table(temps, prcp, date, meta) ==
    [rows |-> [i \in 1..Len(temps) |->
                  [TMAX |-> temps[i].TMAX, TMIN |-> temps[i].TMIN,
                   PRCP |-> IF i = 1 THEN prcp.first ELSE prcp.rest]],
     DATE |-> date, meta |-> meta]

AllMeta == {"STATION", "LATITUDE", "LONGITUDE", "NAME"}

\* Tables of at most MaxRows rows, every reading drawn freely: readings in
\* range, missing, out of the format range (1000) and beyond the physical
\* limit or far apart (800, -400).
MaxRows == 2
SmallTables ==
    LET TMAXInputs == {NaN, Float(200), Float(300), Float(1000)}
        TMINInputs == {NaN, Float(200), Float(300), Float(-400), Float(800)}
        PRCPInputs == {[first |-> Float(0), rest |-> Float(0)],
                       [first |-> Float(-5), rest |-> Float(2500)],
                       [first |-> NaN, rest |-> NaN]}
    IN  {Table(temps, prcp, date, meta) :
            temps \in UNION {[1..n -> [TMAX : TMAXInputs, TMIN : TMINInputs]] :
                                n \in 0..MaxRows},
            prcp \in PRCPInputs,
            date \in {"%m-%d-%Y", "%Y-%m-%d"},
            meta \in {AllMeta, {}}}

\* A longer series: a run of `run` equal readings, then readings that
\* alternate; optionally the last reading 1 degree Celsius above the rest
\* and the reading at `gap` missing.
Series(n, run, spike, gap, base) ==
    [i \in 1..n |->
        IF i = gap THEN NaN
        ELSE IF spike /\ i = n THEN Float(base + 10)
        ELSE IF i <= run THEN Float(base)
        ELSE Float(base + ((i - run) % 2))]

\* Tables with such series, of lengths around the guards len(data) > 10 and
\* len(data) > 30, around 20 (TMAX) and 10 (TMIN) degrees Celsius.
LongTables ==
    LET TablesOfLength(n) ==
          {Table([i \in 1..n |-> [TMAX |-> tmax[i], TMIN |-> tmin[i]]],
                 [first |-> Float(0), rest |-> Float(0)], "datetime64",
                 AllMeta) :
              tmax \in {Series(n, run, spike, gap, 200) :
                          run \in {1, 7, 8, n}, spike \in BOOLEAN,
                          gap \in {0, 4}},
              tmin \in {[i \in 1..n |-> NaN],
                        Series(n, n, FALSE, 0, 100),
                        Series(n, 1, TRUE, 0, 100)}}
    IN  UNION {TablesOfLength(n) : n \in {8, 10, 11, 30, 31}}

\* Neighbour tables: none, one without a station in range, one correlating
\* poorly on TMAX_F (and not at all on TMIN_F), one correlating well.
NeighborInputs ==
    {None,
     [nearby |-> FALSE, correlation |-> [TMAX |-> None, TMIN |-> None]],
     [nearby |-> TRUE,
      correlation |-> [TMAX |-> Frac(1, 10), TMIN |-> None]],
     [nearby |-> TRUE,
      correlation |-> [TMAX |-> Frac(9, 10), TMIN |-> Frac(3, 10)]]}


(***************************************************************************)
(* EnhancedWeatherAnomalyDetector: the ensemble and its lifecycle          *)
(*                                                                         *)
(* A method is an operator of the detector's attributes `self` and its     *)
(* arguments that gives [self, ret]: the attributes after the call, and    *)
(* the value returned or the exception raised.  What the fitted models     *)
(* compute is not modelled: a scaler and a model are kept as what they     *)
(* were configured with and the table they were fitted on, and an          *)
(* inference as the ensemble and the table it was run on.                  *)
(***************************************************************************)

\* An empty dict ({}), as __init__ leaves self.qa_results.
EmptyDict == [tag |-> "empty dict"]

\* __init__(model_path=None)
EnhancedWeatherAnomalyDetector ==
    [models |-> {}, scaler |-> None, feature_columns |-> None,
     is_trained |-> FALSE, qa_results |-> EmptyDict]

Raised(ret) == "tag" \in DOMAIN ret /\ ret.tag = "raise"

\* The table preprocess_data returns: the rows, DATE converted to datetimes,
\* and the columns QA_SCORE and HAS_QA_ISSUES.  The feature columns computed
\* from the rows (TMAX_F, the rolling and seasonal ones) are not kept apart.
processed_table(df, qa_results) ==
    [rows |-> df.rows, DATE |-> "datetime64", meta |-> df.meta,
     QA_SCORE |-> qa_results.qa_score,
     HAS_QA_ISSUES |-> qa_results.total_issues > 0]

\* preprocess_data(df): the audit result is stored before the DATE column is
\* converted, which raises ValueError on strings in another format.
preprocess_data(self, df) ==
    LET convert(qa_results) ==
            [self |-> [self EXCEPT !.qa_results = qa_results],
             ret |-> IF ~to_datetime_ok(df) THEN Raise("ValueError")
                     ELSE processed_table(df, qa_results)]
    IN  convert(comprehensive_qa_check(df, None))

\* self.feature_columns as prepare_features sets it.
feature_columns ==
    <<"TMAX_F", "TMIN_F", "PRCP_IN", "TEMP_RANGE_F", "TMAX_7DAY_AVG_F",
      "TMIN_7DAY_AVG_F", "PRCP_7DAY_SUM_IN", "TMAX_SEASONAL_DEV_F",
      "TMIN_SEASONAL_DEV_F", "PRCP_SEASONAL_DEV_IN", "MONTH", "DAY_OF_YEAR",
      "QA_SCORE">>

\* prepare_features(df) for a processed table: the feature matrix is the
\* table itself, and self.feature_columns is set on the first call.
prepare_features(self, df) ==
    [self |-> [self EXCEPT !.feature_columns =
                              IF @ = None
                              THEN [tag |-> "list", items |-> feature_columns]
                              ELSE @],
     ret |-> df]

\* train_models(df, optimize).  The rates 0.1 and 0.15 are fractions.  Of
\* the three models Local Outlier Factor is only constructed; the other two
\* are fitted on X_scaled.
train_models(self, df, optimize) ==
    LET fit(pre) ==
          IF Raised(pre.ret) THEN pre
          ELSE
            LET features == prepare_features(pre.self, pre.ret)
                X == features.ret
                self1 == [features.self EXCEPT
                             !.scaler = [tag |-> "StandardScaler",
                                         fitted_on |-> X]]
            IN  IF optimize /\ self1.qa_results = EmptyDict
                THEN [self |-> self1, ret |-> Raise("KeyError")]
                ELSE
                  LET contamination_rate ==
                          IF optimize /\ self1.qa_results.total_issues > 5
                          THEN Frac(15, 100) ELSE Frac(10, 100)
                      models ==
                          {[name |-> "Isolation Forest",
                            contamination |-> contamination_rate,
                            fitted_on |-> X],
                           [name |-> "Local Outlier Factor",
                            contamination |-> contamination_rate,
                            fitted_on |-> None],
                           [name |-> "One-Class SVM",
                            contamination |-> contamination_rate,
                            fitted_on |-> X]}
                  IN  [self |-> [self1 EXCEPT !.models = models,
                                              !.is_trained = TRUE],
                       ret |-> None]
    IN  fit(IF "QA_SCORE" \notin DOMAIN df
            THEN preprocess_data(self, df)
            ELSE [self |-> self, ret |-> df])

\* detect_statistical_anomalies(df): the frame of z-score anomalies, kept as
\* the table examined and the adjusted threshold (3, or 3.5 when the stored
\* audit counts more than 3 issues).
detect_statistical_anomalies(self, df) ==
    [tag |-> "statistical", df |-> df,
     adjusted_threshold |-> IF self.qa_results.total_issues > 3
                            THEN Frac(7, 2) ELSE Frac(3, 1)]

\* A slip in the guard: inference runs on whatever self.models holds.
detect_ml_anomalies_unguarded(self, df) ==
    LET features == prepare_features(self, df)
    IN  [self |-> features.self,
         ret |-> [tag |-> "ml", models |-> self.models,
                  scaler |-> self.scaler, X |-> features.ret]]

\* detect_ml_anomalies(df), for a processed table.
detect_ml_anomalies(self, df) ==
    IF ~self.is_trained
    THEN [self |-> self, ret |-> Raise("ValueError")]
    ELSE LET features == prepare_features(self, df)
         IN  [self |-> features.self,
              ret |-> [tag |-> "ml", models |-> self.models,
                       scaler |-> self.scaler, X |-> features.ret]]

\* detect_anomalies(df, use_statistical, use_ml, confidence_threshold): the
\* results dictionary, with the keys it holds.
detect_anomalies(self, df, use_statistical, use_ml) ==
    LET detect(pre) ==
          IF Raised(pre.ret) THEN pre
          ELSE
            LET df_processed == pre.ret
                run_ml == use_ml /\ pre.self.is_trained
                ml == IF run_ml
                      THEN detect_ml_anomalies(pre.self, df_processed)
                      ELSE [self |-> pre.self, ret |-> None]
            IN  IF Raised(ml.ret) THEN ml
                ELSE [self |-> ml.self,
                      ret |-> [tag |-> "results",
                               keys |-> (IF use_statistical
                                         THEN {"statistical"} ELSE {})
                                        \cup (IF run_ml THEN {"ml"} ELSE {})
                                        \cup {"qa_results", "summary"},
                               statistical |->
                                   IF use_statistical
                                   THEN detect_statistical_anomalies(
                                            pre.self, df_processed)
                                   ELSE None,
                               ml |-> ml.ret,
                               qa_results |-> ml.self.qa_results]]
    IN  detect(preprocess_data(self, df))

\* The files of a model directory, in the order save_models writes and
\* load_models reads them; NoFile marks a file that does not exist.
model_files == <<"models.pkl", "scaler.pkl", "feature_columns.pkl",
                 "qa_results.pkl">>
NoFile == [tag |-> "no file"]
File(content) == [tag |-> "file", content |-> content]
EmptyDirectory == [f \in {model_files[i] : i \in 1..4} |-> NoFile]

\* save_models(path): also gives the directory at path after the call.
save_models(self, directory) ==
    IF ~self.is_trained
    THEN [self |-> self, ret |-> Raise("ValueError"), directory |-> directory]
    ELSE [self |-> self, ret |-> None,
          directory |-> [f \in DOMAIN directory |->
                            IF f = "models.pkl" THEN File(self.models)
                            ELSE IF f = "scaler.pkl" THEN File(self.scaler)
                            ELSE IF f = "feature_columns.pkl"
                            THEN File(self.feature_columns)
                            ELSE File(self.qa_results)]]

\* load_models(path): the four loads in turn; the first missing file raises
\* FileNotFoundError, which is caught: the attributes loaded before it stay
\* loaded and is_trained becomes False.
load_models(self, directory) ==
    LET missing == {k \in 1..Len(model_files) :
                       directory[model_files[k]] = NoFile}
        loaded == IF missing = {} THEN Len(model_files)
                  ELSE (CHOOSE k \in missing : \A j \in missing : k <= j) - 1
        content(k) == directory[model_files[k]].content
    IN  [self |-> [models |-> IF loaded >= 1 THEN content(1) ELSE self.models,
                   scaler |-> IF loaded >= 2 THEN content(2) ELSE self.scaler,
                   feature_columns |-> IF loaded >= 3 THEN content(3)
                                       ELSE self.feature_columns,
                   qa_results |-> IF loaded >= 4 THEN content(4)
                                  ELSE self.qa_results,
                   is_trained |-> missing = {}],
         ret |-> None]

\* The tables the detector is called with: one without issues, one with
\* exactly 5 and one with 6 (no metadata, one day with TMAX < TMIN, and a
\* negative precipitation reading in the last), and one whose DATE strings
\* are in another format (YYYY-MM-DD).
RawTables ==
    LET CleanTable ==
            Table(<<[TMAX |-> Float(300), TMIN |-> Float(200)],
                    [TMAX |-> Float(200), TMIN |-> NaN]>>,
                  [first |-> Float(0), rest |-> Float(0)], "%m-%d-%Y", AllMeta)
        FiveIssueTable ==
            Table(<<[TMAX |-> Float(200), TMIN |-> Float(300)]>>,
                  [first |-> Float(0), rest |-> Float(0)], "%m-%d-%Y", {})
        SixIssueTable ==
            Table(<<[TMAX |-> Float(200), TMIN |-> Float(300)]>>,
                  [first |-> Float(-5), rest |-> Float(2500)], "%m-%d-%Y", {})
        OtherDateTable ==
            Table(<<[TMAX |-> Float(300), TMIN |-> Float(200)]>>,
                  [first |-> Float(0), rest |-> Float(0)], "%Y-%m-%d", AllMeta)
    IN  {CleanTable, FiveIssueTable, SixIssueTable, OtherDateTable}

\* The processed tables: what preprocess_data returns for the raw ones.
ProcessedTables ==
    {processed_table(df, comprehensive_qa_check(df, None)) :
        df \in {t \in RawTables : to_datetime_ok(t)}}

(***************************************************************************)
(* app.py: the /api/anomaly-detection handler                              *)
(*                                                                         *)
(* The rows of us_weather_data carry STATION and DATE (a day number) next  *)
(* to the readings.  A request is [station_id, start_date, end_date,       *)
(* methods]; a parameter the client left out is "" (a station) or 0 (a     *)
(* date).  The response is the JSON object: an error, or the report.       *)
(***************************************************************************)

ErrorResponse(message) == [tag |-> "error", error |-> message]

\* generate_anomaly_report(station_id, data, results): the fields that come
\* from the detector's results; the plots are left out.
generate_anomaly_report(station_id, filtered_data, detected) ==
    [tag |-> "report", station_id |-> station_id,
     total_records |-> Len(filtered_data.rows),
     anomalies |-> detected.keys \cap {"statistical", "ml"},
     results |-> detected]

\* run_anomaly_detection(): gives the global detector after the request and
\* the response.  Any exception below the validation is caught and becomes
\* {'error': str(e)}.
run_anomaly_detection(global_detector, weather_data, req) ==
    IF req.station_id = "" \/ req.start_date = 0 \/ req.end_date = 0
    THEN [detector |-> global_detector,
          response |-> ErrorResponse("Missing required parameters")]
    ELSE IF global_detector = None
    THEN [detector |-> global_detector,
          response |-> ErrorResponse("Anomaly detector not initialized")]
    ELSE IF weather_data.rows = <<>>
    THEN [detector |-> global_detector,
          response |-> ErrorResponse("No weather data available")]
    ELSE
      LET station_data ==
              [weather_data EXCEPT
                  !.rows = SelectSeq(@, LAMBDA r : r.STATION = req.station_id),
                  !.DATE = "datetime64"]
          filtered_data ==
              [station_data EXCEPT
                  !.rows = SelectSeq(@, LAMBDA r : r.DATE >= req.start_date
                                                    /\ r.DATE <= req.end_date)]
      IN  IF station_data.rows = <<>>
          THEN [detector |-> global_detector,
                response |-> ErrorResponse("No data found for station")]
          ELSE IF filtered_data.rows = <<>>
          THEN [detector |-> global_detector,
                response |->
                    ErrorResponse("No data found for the specified date range")]
          ELSE
            LET trained == IF ~global_detector.is_trained
                           THEN train_models(global_detector, filtered_data, TRUE)
                           ELSE [self |-> global_detector, ret |-> None]
            IN  IF Raised(trained.ret)
                THEN [detector |-> trained.self,
                      response |-> ErrorResponse(trained.ret.exc)]
                ELSE
                  LET detected ==
                          detect_anomalies(trained.self, filtered_data,
                                           "statistical" \in req.methods,
                                           "ml" \in req.methods)
                  IN  IF Raised(detected.ret)
                      THEN [detector |-> detected.self,
                            response |-> ErrorResponse(detected.ret.exc)]
                      ELSE [detector |-> detected.self,
                            response |->
                                generate_anomaly_report(req.station_id,
                                                        filtered_data,
                                                        detected.ret)]

\* us_weather_data: three days of two stations; the second station has a
\* day with TMAX below TMIN.  An empty frame when the file is missing.
WeatherData ==
    LET WeatherRow(station, date, tmax, tmin) ==
            [STATION |-> station, DATE |-> date, TMAX |-> Float(tmax),
             TMIN |-> Float(tmin), PRCP |-> Float(0)]
    IN
    [rows |-> <<WeatherRow(StationA, 1, 250, 150),
                WeatherRow(StationA, 2, 260, 160),
                WeatherRow(StationA, 3, 240, 140),
                WeatherRow(StationB, 1, 100, 50),
                WeatherRow(StationB, 2, 40, 60),
                WeatherRow(StationB, 3, 110, 30)>>,
     DATE |-> "%Y-%m-%d", meta |-> AllMeta]

EmptyFrame == [rows |-> <<>>, DATE |-> "%Y-%m-%d", meta |-> {}]

\* The requests: a known station, an unknown one or none; date ranges
\* within, across and beyond the data (0: the date is missing).
AppRequestInputs ==
    [station_id : {StationA, StationB, "USC00000000", ""},
     start_date : {0, 1, 2, 4},
     end_date : {1, 3, 5},
     methods : {{"statistical", "ml"}, {"statistical"}}]

(***************************************************************************)
(* demo_app.py: the baseline of one station around a date                  *)
(*                                                                         *)
(* A row of station_data is [DATE, MONTH, DAY, TMAX_F, TMIN_F]: DATE is    *)
(* <<year, month, day>>, MONTH and DAY are DATE.dt.month and DATE.dt.day,  *)
(* and the two temperatures are readings (NaN when missing).               *)
(***************************************************************************)

\* The days of the months of a common year.
DaysInMonth == <<31, 28, 31, 30, 31, 30, 31, 31, 30, 31, 30, 31>>

\* Timestamp.dayofyear in a common year.
RECURSIVE dayofyear(_)
dayofyear(date) ==
    IF date[2] = 1 THEN date[3]
    ELSE DaysInMonth[date[2] - 1] + dayofyear(<<date[1], date[2] - 1, date[3]>>)

\* The half-width of the window, in days.
WindowDays == 15

\* baseline_data: MONTH == target_month, DAY >= max(1, target_day - 15) and
\* DAY <= min(31, target_day + 15).
station_window(station, target) ==
    LET lo == IF target[3] - WindowDays > 1 THEN target[3] - WindowDays ELSE 1
        hi == IF target[3] + WindowDays < 31 THEN target[3] + WindowDays
              ELSE 31
    IN  SelectSeq(station, LAMBDA r :
            /\ r.MONTH = target[2]
            /\ r.DAY >= lo
            /\ r.DAY <= hi)

\* DATE.min() and DATE.max() of a non-empty sample, by (year, month, day).
DateBefore(a, b) ==
    \/ a[1] < b[1]
    \/ a[1] = b[1] /\ a[2] < b[2]
    \/ a[1] = b[1] /\ a[2] = b[2] /\ a[3] <= b[3]

\* calculate_station_baseline(station_data, target_date): None, or the
\* dictionary of the baseline.
calculate_station_baseline(station, target) ==
    LET stats(sample) ==
            LET tmax_data == SelectSeq(sample, LAMBDA r : ~isna(r.TMAX_F))
                tmin_data == SelectSeq(sample, LAMBDA r : ~isna(r.TMIN_F))
                tmax == [i \in 1..Len(tmax_data) |-> tmax_data[i].TMAX_F.v]
                tmin == [i \in 1..Len(tmin_data) |-> tmin_data[i].TMIN_F.v]
                dates == {sample[i].DATE : i \in 1..Len(sample)}
            IN  IF Len(sample) < 10 THEN None
                ELSE IF Len(tmax) < 5 THEN None
                ELSE [tag |-> "baseline",
                      tmax_f_mean |-> BaselineRecord(tmax).mean,
                      tmax_f_std |-> BaselineRecord(tmax).std,
                      sample_size |-> Len(sample),
                      date_range |->
                          [start |-> CHOOSE a \in dates :
                                         \A b \in dates : DateBefore(a, b),
                           end |-> CHOOSE a \in dates :
                                       \A b \in dates : DateBefore(b, a)],
                      tmin_f_mean |-> IF Len(tmin) >= 5
                                      THEN BaselineRecord(tmin).mean ELSE None,
                      tmin_f_std |-> IF Len(tmin) >= 5
                                     THEN BaselineRecord(tmin).std ELSE None]
    IN  stats(station_window(station, target))

\* The months the station tables cover: January to March.
StationMonths == 3

\* The tables: every day of the first StationMonths months of one or two
\* common years, with all readings ("full"), TMAX read one day in seven
\* ("few_tmax"), no TMIN ("no_tmin"), or one row every fourth day ("sparse").
StationTables ==
    LET row(y, m, d, kind) ==
            [DATE |-> <<2020 + y, m, d>>, MONTH |-> m, DAY |-> d,
             TMAX_F |-> IF kind = "few_tmax" /\ d % 7 # 0 THEN NaN
                        ELSE Float(30 + 10 * m + (d % 5) + y),
             TMIN_F |-> IF kind = "no_tmin" THEN NaN
                        ELSE Float(10 + 10 * m + (d % 3))]
        month(y, m, kind) ==
            SelectSeq([d \in 1..DaysInMonth[m] |-> row(y, m, d, kind)],
                      LAMBDA r : kind = "sparse" => r.DAY % 4 = 1)
        RECURSIVE months(_, _, _)
        months(y, m, kind) ==
            IF m = 0 THEN <<>>
            ELSE months(y, m - 1, kind) \o month(y, m, kind)
        year(y, kind) == months(y, StationMonths, kind)
    IN  {year(1, kind) : kind \in {"full", "few_tmax", "no_tmin", "sparse"}}
        \cup {year(1, kind) \o year(2, kind) :
                 kind \in {"full", "few_tmax", "no_tmin", "sparse"}}

(***************************************************************************)
(* app.py: requests that overlap                                           *)
(*                                                                         *)
(* app.run serves each request on a thread of its own, and every handler   *)
(* works on the one global detector.  A request in flight is a record of   *)
(* its position in the handler (pc) and of the handler's local variables.  *)
(* A step runs the handler from one access to the detector's qa_results    *)
(* to the next; the interleavings inside a step (the writes of scaler,     *)
(* models and is_trained while the models are fitted) are not taken apart. *)
(***************************************************************************)

\* us_weather_data: WeatherData, or a file without the LONGITUDE and NAME
\* columns in which the second station has readings out of every range.
ConcurrentWeatherData ==
    LET WeatherRow(station, date, tmax, tmin, prcp) ==
            [STATION |-> station, DATE |-> date, TMAX |-> Float(tmax),
             TMIN |-> Float(tmin), PRCP |-> Float(prcp)]
    IN
    {WeatherData,
     [rows |-> <<WeatherRow(StationA, 1, 250, 150, 0),
                 WeatherRow(StationA, 2, 260, 160, 0),
                 WeatherRow(StationA, 3, 240, 140, 0),
                 WeatherRow(StationB, 1, 700, 800, -5),
                 WeatherRow(StationB, 2, 40, 60, 0),
                 WeatherRow(StationB, 3, 40, 30, 0)>>,
      DATE |-> "%Y-%m-%d", meta |-> {"STATION", "LATITUDE"}]}

\* The requests that overlap: either station, a date range with or without
\* data, with or without the ML methods.
ConcurrentRequestInputs ==
    [station_id : {StationA, StationB},
     start_date : {1, 4},
     end_date : {3},
     methods : {{"statistical", "ml"}, {"statistical"}}]

\* The threads of the server that serve a request.
Threads == 1..2

\* A request as the server hands it to the handler.
Accepted(req) ==
    [pc |-> "filter", request |-> req, filtered_data |-> None,
     df_processed |-> None, contamination_rate |-> None,
     statistical |-> None, ml |-> None, response |-> Pending]

(***************************************************************************)
(* Specifications: one per operation, its inputs drawn by Init             *)
(***************************************************************************)

ClassifyIdle ==
    /\ value = NaN
    /\ baseline = Pending
    /\ element = ""
    /\ confidence_threshold = Frac(1, 1)
    /\ anomaly = Pending

TableIdle ==
    /\ data = <<>>
    /\ target_date = 0
    /\ request = None
    /\ results = Pending
    /\ element_data = <<>>
    /\ sampled = {}

InitClassify ==
    /\ value \in ValueInputs
    /\ baseline \in BaselineInputs
    /\ element \in ElementInputs
    /\ confidence_threshold \in ThresholdInputs
    /\ anomaly = Pending

\* One call detect_element_anomaly(value, baseline, element, threshold).
DetectElementAnomaly ==
    /\ anomaly = Pending
    /\ anomaly' = detect_element_anomaly(value, baseline, element,
                                         confidence_threshold)
    /\ UNCHANGED <<value, baseline, element, confidence_threshold>>

InitBaseline ==
    /\ data \in TablesOver(BaselineGrid, BaselineCells)
    /\ target_date \in TargetInputs
    /\ element = "TMAX_F"
    /\ baseline = Pending
    /\ element_data = <<>>
    /\ value = NaN
    /\ confidence_threshold = Frac(1, 1)
    /\ anomaly = Pending
    /\ request = None
    /\ results = Pending
    /\ sampled = {}

\* One call calculate_element_baseline(data, element, target_date).
CalculateElementBaseline ==
    /\ baseline = Pending
    /\ baseline' = calculate_element_baseline(data, element, target_date)
    /\ element_data' = element_data_of(data, element, target_date)
    /\ UNCHANGED <<data, target_date, element>>

InitDetect ==
    /\ data \in TablesOver(StationGrid, StationCells)
    /\ element \in ColumnInputs
    /\ request \in RequestInputs
    /\ results = Pending
    /\ sampled = {}
    /\ target_date = 0
    /\ element_data = <<>>
    /\ value = NaN
    /\ baseline = Pending
    /\ confidence_threshold = Frac(1, 1)
    /\ anomaly = Pending

\* One call detect_comprehensive_anomalies(data, station_id, start_date,
\* end_date, confidence_threshold).
DetectComprehensiveAnomalies ==
    /\ results = Pending
    /\ results' = detect_comprehensive_anomalies(data, element, request)
    /\ sampled' = sampled_rows_of(data, element, request)
    /\ UNCHANGED <<data, element, request>>

ParseIdle ==
    /\ attribute = None
    /\ parsed = Pending

\* One call handler.parse_flags(attribute_string).
ParseFlags ==
    /\ parsed = Pending
    /\ parsed' = parse_flags(attribute)
    /\ UNCHANGED attribute

QAIdle ==
    /\ audited = None
    /\ qa_report = Pending

\* One call detector.comprehensive_qa_check(df, neighbor_data).
ComprehensiveQACheck ==
    /\ qa_report = Pending
    /\ qa_report' = comprehensive_qa_check(audited.df, audited.neighbor_data)
    /\ UNCHANGED audited

\* detector = EnhancedWeatherAnomalyDetector(), and no model directory yet.
InitDetector ==
    /\ detector = EnhancedWeatherAnomalyDetector
    /\ disk = EmptyDirectory
    /\ call = None

Call(op, df, flags, ret) ==
    [op |-> op, df |-> df, flags |-> flags, ret |-> ret]

\* detector.preprocess_data(df)
PreprocessData ==
    \E df \in RawTables :
        LET r == preprocess_data(detector, df)
        IN  /\ detector' = r.self
            /\ call' = Call("preprocess_data", df, {}, r.ret)
            /\ UNCHANGED disk

\* detector.train_models(df, optimize), on a raw table or on a processed one
TrainModels ==
    \E df \in RawTables \cup ProcessedTables, optimize \in BOOLEAN :
        LET r == train_models(detector, df, optimize)
        IN  /\ detector' = r.self
            /\ call' = Call("train_models", df,
                            IF optimize THEN {"optimize"} ELSE {}, r.ret)
            /\ UNCHANGED disk

\* detector.detect_ml_anomalies(df_processed)
DetectMLAnomalies ==
    \E df \in ProcessedTables :
        LET r == detect_ml_anomalies(detector, df)
        IN  /\ detector' = r.self
            /\ call' = Call("detect_ml_anomalies", df, {}, r.ret)
            /\ UNCHANGED disk

\* detector.detect_anomalies(df, use_ml=...), use_statistical at its default
DetectAnomalies ==
    \E df \in RawTables, use_ml \in BOOLEAN :
        LET r == detect_anomalies(detector, df, TRUE, use_ml)
        IN  /\ detector' = r.self
            /\ call' = Call("detect_anomalies", df,
                            {"use_statistical"}
                            \cup (IF use_ml THEN {"use_ml"} ELSE {}), r.ret)
            /\ UNCHANGED disk

\* detector.save_models('enhanced_models')
SaveModels ==
    LET r == save_models(detector, disk)
    IN  /\ detector' = r.self
        /\ disk' = r.directory
        /\ call' = Call("save_models", None, {}, r.ret)

\* detector.load_models('enhanced_models')
LoadModels ==
    LET r == load_models(detector, disk)
    IN  /\ detector' = r.self
        /\ call' = Call("load_models", None, {}, r.ret)
        /\ UNCHANGED disk

AppIdle == us_weather_data = EmptyFrame

\* One POST /api/anomaly-detection, from the request to the response.
RunAnomalyDetection ==
    \E req \in AppRequestInputs :
        LET r == run_anomaly_detection(detector, us_weather_data, req)
        IN  /\ detector' = r.detector
            /\ call' = [op |-> "run_anomaly_detection", request |-> req,
                        response |-> r.response]
            /\ UNCHANGED <<disk, us_weather_data>>

SourceIdle ==
    /\ sflags = <<"", "">>
    /\ ranked = Pending

\* handler.get_source_priority and handler.is_high_quality_source, called
\* on each of the two flags.
RankSources ==
    /\ ranked = Pending
    /\ ranked' = [priority |-> [i \in 1..2 |-> get_source_priority(sflags[i])],
                  high_quality |->
                      [i \in 1..2 |-> is_high_quality_source(sflags[i])]]
    /\ UNCHANGED sflags

StationIdle ==
    /\ historical_data = <<>>
    /\ station_date = <<0, 0, 0>>
    /\ station_sample = <<>>
    /\ station_baseline = Pending

\* One call of calculate_station_baseline.
CalculateStationBaseline ==
    /\ station_baseline = Pending
    /\ station_sample' = station_window(historical_data, station_date)
    /\ station_baseline' =
           calculate_station_baseline(historical_data, station_date)
    /\ UNCHANGED <<historical_data, station_date>>

ConcurrentIdle ==
    inflight = <<>>

\* The except branch of the handler: the response is {'error': str(e)}.
Failed(me, exc) == [me EXCEPT !.pc = "done", !.response = ErrorResponse(exc)]

\* Lines 158-193 of the handler: the validation and the two filters.
FilterData(t) ==
    LET me == inflight[t]
        req == me.request
        station_data ==
            [us_weather_data EXCEPT
                !.rows = SelectSeq(@, LAMBDA r : r.STATION = req.station_id),
                !.DATE = "datetime64"]
        filtered_data ==
            [station_data EXCEPT
                !.rows = SelectSeq(@, LAMBDA r : r.DATE >= req.start_date
                                                  /\ r.DATE <= req.end_date)]
    IN  /\ me.pc = "filter"
        /\ inflight' =
             [inflight EXCEPT ![t] =
                IF req.station_id = "" \/ req.start_date = 0
                                       \/ req.end_date = 0
                THEN Failed(me, "Missing required parameters")
                ELSE IF detector = None
                THEN Failed(me, "Anomaly detector not initialized")
                ELSE IF us_weather_data.rows = <<>>
                THEN Failed(me, "No weather data available")
                ELSE IF station_data.rows = <<>>
                THEN Failed(me, "No data found for station")
                ELSE IF filtered_data.rows = <<>>
                THEN Failed(me, "No data found for the specified date range")
                ELSE [me EXCEPT !.pc = "is_trained",
                                !.filtered_data = filtered_data]]
        /\ UNCHANGED detector

\* Line 196: if not detector.is_trained.
TestIsTrained(t) ==
    /\ inflight[t].pc = "is_trained"
    /\ inflight' = [inflight EXCEPT ![t].pc =
                        IF ~detector.is_trained THEN "train_models"
                        ELSE "detect_anomalies"]
    /\ UNCHANGED detector

\* train_models, lines 381-383: preprocess_data stores the audit of the
\* request's data in the detector.
TrainPreprocess(t) ==
    LET me == inflight[t]
        pre == preprocess_data(detector, me.filtered_data)
    IN  /\ me.pc = "train_models"
        /\ detector' = pre.self
        /\ inflight' = [inflight EXCEPT ![t] =
                           IF Raised(pre.ret) THEN Failed(me, pre.ret.exc)
                           ELSE [me EXCEPT !.pc = "fit",
                                           !.df_processed = pre.ret]]

\* train_models, lines 385-418: the rest of the method on the preprocessed
\* table; the contamination rate is chosen from the audit the detector holds.
TrainFit(t) ==
    LET me == inflight[t]
        trained == train_models(detector, me.df_processed, TRUE)
    IN  /\ me.pc = "fit"
        /\ detector' = trained.self
        /\ inflight' =
             [inflight EXCEPT ![t] =
                IF Raised(trained.ret) THEN Failed(me, trained.ret.exc)
                ELSE [me EXCEPT
                         !.pc = "detect_anomalies",
                         !.df_processed = None,
                         !.contamination_rate =
                             (CHOOSE m \in trained.self.models :
                                 m.name = "Isolation Forest").contamination]]

\* detect_anomalies, line 494: preprocess_data again.
DetectPreprocess(t) ==
    LET me == inflight[t]
        pre == preprocess_data(detector, me.filtered_data)
    IN  /\ me.pc = "detect_anomalies"
        /\ detector' = pre.self
        /\ inflight' = [inflight EXCEPT ![t] =
                           IF Raised(pre.ret) THEN Failed(me, pre.ret.exc)
                           ELSE [me EXCEPT !.pc = "methods",
                                           !.df_processed = pre.ret]]

\* detect_anomalies, lines 498-502: the statistical and the ML methods.
DetectMethods(t) ==
    LET me == inflight[t]
        run_ml == "ml" \in me.request.methods /\ detector.is_trained
        ml == IF run_ml THEN detect_ml_anomalies(detector, me.df_processed)
              ELSE [self |-> detector, ret |-> None]
    IN  /\ me.pc = "methods"
        /\ detector' = ml.self
        /\ inflight' =
             [inflight EXCEPT ![t] =
                IF Raised(ml.ret) THEN Failed(me, ml.ret.exc)
                ELSE [me EXCEPT
                         !.pc = "summary",
                         !.statistical =
                             IF "statistical" \in me.request.methods
                             THEN detect_statistical_anomalies(
                                      detector, me.df_processed)
                             ELSE None,
                         !.ml = ml.ret]]

\* detect_anomalies, lines 504-517, and the report: qa_results and the
\* data_quality_score are read from the detector.
Summarise(t) ==
    LET me == inflight[t]
        detected ==
            [tag |-> "results",
             keys |-> (IF me.statistical # None THEN {"statistical"} ELSE {})
                      \cup (IF me.ml # None THEN {"ml"} ELSE {})
                      \cup {"qa_results", "summary"},
             statistical |-> me.statistical,
             ml |-> me.ml,
             qa_results |-> detector.qa_results]
    IN  /\ me.pc = "summary"
        /\ inflight' = [inflight EXCEPT ![t] =
                           [me EXCEPT
                               !.pc = "done",
                               !.response =
                                   generate_anomaly_report(
                                       me.request.station_id,
                                       me.filtered_data, detected)]]
        /\ UNCHANGED detector

NextFlags ==
    /\ CalculateQualityScore
    /\ UNCHANGED <<classifyVars, tableVars, parseVars, qaVars, detectorVars,
                   appVars, sourceVars, stationVars, concurrentVars>>

NextClassify ==
    /\ DetectElementAnomaly
    /\ UNCHANGED <<flagVars, tableVars, parseVars, qaVars, detectorVars,
                   appVars, sourceVars, stationVars, concurrentVars>>

NextBaseline ==
    /\ CalculateElementBaseline
    /\ UNCHANGED <<flagVars, value, confidence_threshold, anomaly, request,
                   results, sampled, parseVars, qaVars, detectorVars,
                   appVars, sourceVars, stationVars, concurrentVars>>

Next ==
    /\ DetectComprehensiveAnomalies
    /\ UNCHANGED <<flagVars, value, baseline, confidence_threshold, anomaly,
                   target_date, element_data, parseVars, qaVars,
                   detectorVars, appVars, sourceVars, stationVars,
                   concurrentVars>>

NextParse ==
    /\ ParseFlags
    /\ UNCHANGED <<flagVars, classifyVars, tableVars, qaVars, detectorVars,
                   appVars, sourceVars, stationVars, concurrentVars>>

NextQA ==
    /\ ComprehensiveQACheck
    /\ UNCHANGED <<flagVars, classifyVars, tableVars, parseVars,
                   detectorVars, appVars, sourceVars, stationVars,
                   concurrentVars>>

NextDetector ==
    /\ \/ PreprocessData
       \/ TrainModels
       \/ DetectMLAnomalies
       \/ DetectAnomalies
       \/ SaveModels
       \/ LoadModels
    /\ UNCHANGED <<flagVars, classifyVars, tableVars, parseVars, qaVars,
                   appVars, sourceVars, stationVars, concurrentVars>>

NextApp ==
    /\ RunAnomalyDetection
    /\ UNCHANGED <<flagVars, classifyVars, tableVars, parseVars, qaVars,
                   sourceVars, stationVars, concurrentVars>>

NextSource ==
    /\ RankSources
    /\ UNCHANGED <<flagVars, classifyVars, tableVars, parseVars, qaVars,
                   detectorVars, appVars, stationVars, concurrentVars>>

NextStation ==
    /\ CalculateStationBaseline
    /\ UNCHANGED <<flagVars, classifyVars, tableVars, parseVars, qaVars,
                   detectorVars, appVars, sourceVars, concurrentVars>>

NextConcurrent ==
    /\ \E t \in Threads :
          \/ FilterData(t)
          \/ TestIsTrained(t)
          \/ TrainPreprocess(t)
          \/ TrainFit(t)
          \/ DetectPreprocess(t)
          \/ DetectMethods(t)
          \/ Summarise(t)
    /\ UNCHANGED <<flagVars, classifyVars, tableVars, parseVars, qaVars,
                   disk, call, appVars, sourceVars, stationVars>>

\* The initial states of each specification: the inputs of its operation,
\* and the variables of the other operations at rest.
InitSpecFlags ==
    /\ InitFlags /\ ClassifyIdle /\ TableIdle /\ ParseIdle /\ QAIdle
    /\ InitDetector /\ AppIdle
    /\ SourceIdle
    /\ StationIdle
    /\ ConcurrentIdle
InitSpecClassify ==
    /\ InitClassify /\ FlagIdle /\ TableIdle /\ ParseIdle /\ QAIdle
    /\ InitDetector /\ AppIdle
    /\ SourceIdle
    /\ StationIdle
    /\ ConcurrentIdle
InitSpecBaseline ==
    InitBaseline /\ FlagIdle /\ ParseIdle /\ QAIdle /\ InitDetector /\ AppIdle
    /\ SourceIdle
    /\ StationIdle
    /\ ConcurrentIdle
Init ==
    InitDetect /\ FlagIdle /\ ParseIdle /\ QAIdle /\ InitDetector /\ AppIdle
    /\ SourceIdle
    /\ StationIdle
    /\ ConcurrentIdle

\* The arguments of one call of parse_flags.
InitSpecParse ==
    /\ attribute \in AttributeInputs
    /\ parsed = Pending
    /\ FlagIdle /\ ClassifyIdle /\ TableIdle /\ QAIdle /\ InitDetector
    /\ AppIdle
    /\ SourceIdle
    /\ StationIdle
    /\ ConcurrentIdle

\* The arguments of one call of comprehensive_qa_check: a small table
\* without neighbours, or a longer one with any of the neighbour tables.
InitSpecQA ==
    /\ audited \in ([df : SmallTables, neighbor_data : {None}]
                       \cup [df : LongTables, neighbor_data : NeighborInputs])
    /\ qa_report = Pending
    /\ FlagIdle /\ ClassifyIdle /\ TableIdle /\ ParseIdle /\ InitDetector
    /\ AppIdle
    /\ SourceIdle
    /\ StationIdle
    /\ ConcurrentIdle

InitSpecDetector ==
    /\ InitDetector /\ FlagIdle /\ ClassifyIdle /\ TableIdle /\ ParseIdle
    /\ QAIdle /\ AppIdle
    /\ SourceIdle
    /\ StationIdle
    /\ ConcurrentIdle

\* The module is loaded (detector = None) and, when it is run as a script,
\* load_data() and initialize_detector() have been called.
InitSpecApp ==
    /\ detector \in {None, EnhancedWeatherAnomalyDetector}
    /\ us_weather_data \in {EmptyFrame, WeatherData}
    /\ disk = EmptyDirectory
    /\ call = None
    /\ FlagIdle /\ ClassifyIdle /\ TableIdle /\ ParseIdle /\ QAIdle
    /\ SourceIdle
    /\ StationIdle
    /\ ConcurrentIdle

\* Two source flags a caller can pass, known or not.
InitSpecSource ==
    /\ sflags \in SFlagInputs \X SFlagInputs
    /\ ranked = Pending
    /\ FlagIdle /\ ClassifyIdle /\ TableIdle /\ ParseIdle /\ QAIdle
    /\ InitDetector /\ AppIdle
    /\ StationIdle
    /\ ConcurrentIdle

\* A station table and a target date in the months it covers.
InitSpecStation ==
    /\ historical_data \in StationTables
    /\ station_date \in {t \in {2021} \X (1..StationMonths) \X (1..31) :
                            t[3] <= DaysInMonth[t[2]]}
    /\ station_sample = <<>>
    /\ station_baseline = Pending
    /\ FlagIdle /\ ClassifyIdle /\ TableIdle /\ ParseIdle /\ QAIdle
    /\ InitDetector /\ AppIdle /\ SourceIdle
    /\ ConcurrentIdle

\* The server with its data loaded and a fresh detector, and one request
\* accepted on each thread.
InitSpecConcurrent ==
    /\ detector = EnhancedWeatherAnomalyDetector
    /\ us_weather_data \in ConcurrentWeatherData
    /\ inflight \in [Threads -> {Accepted(req) :
                                    req \in ConcurrentRequestInputs}]
    /\ disk = EmptyDirectory
    /\ call = None
    /\ FlagIdle /\ ClassifyIdle /\ TableIdle /\ ParseIdle /\ QAIdle
    /\ SourceIdle /\ StationIdle

SpecFlags == InitSpecFlags /\ [][NextFlags]_vars
SpecClassify == InitSpecClassify /\ [][NextClassify]_vars
SpecBaseline == InitSpecBaseline /\ [][NextBaseline]_vars
Spec == Init /\ [][Next]_vars
SpecParse == InitSpecParse /\ [][NextParse]_vars
SpecQA == InitSpecQA /\ [][NextQA]_vars
SpecDetector == InitSpecDetector /\ [][NextDetector]_vars
SpecApp == InitSpecApp /\ [][NextApp]_vars
SpecSource == InitSpecSource /\ [][NextSource]_vars
SpecStation == InitSpecStation /\ [][NextStation]_vars
SpecConcurrent == InitSpecConcurrent /\ [][NextConcurrent]_vars

(***************************************************************************)
(* Properties of calculate_quality_score (SpecFlags)                       *)
(***************************************************************************)

Scored == score # Pending

\* The deductions as the specification tabulates them.
TableQ(q) ==
    IF q \in {"D", "G", "I", "K", "L"} THEN 10
    ELSE IF q \in {"M", "N", "O", "R", "S", "T"} THEN 25
    ELSE IF q \in {"W", "X", "Z"} THEN 50
    ELSE 0
TableS(s) ==
    IF s \in {"R", "D", "0", "6", "C", "X", "W", "K", "7", "F", "B", "M"}
    THEN 0 ELSE 15
TableM(m) == IF m = "T" THEN 5 ELSE IF m = "P" THEN 20 ELSE 0

\* C8: the quality score of every triplet lies in [0, 100], and a triplet
\* with empty measurement and quality flags and an allow-listed source flag
\* scores exactly 100.
C8_ScoreInRange ==
    Scored =>
        /\ score.v >= 0
        /\ score.v <= 100
        /\ (triplet.mflag = "" /\ triplet.qflag = ""
                /\ TableS(triplet.sflag) = 0) => score.v = 100

C8_Witness ==
    /\ Scored
    /\ triplet = [mflag |-> "", qflag |-> "", sflag |-> "0"]
    /\ score.v = 100

\* C9: the quality score equals max(0, 100 - Q - S - M): Q by the tier of
\* the quality flag (10, 25, 50, else 0), S = 15 for a source flag outside
\* the allow-list, M = 5 for measurement flag T and 20 for P; the three
\* deductions add up independently.
C9_ScoreIsSumOfDeductions ==
    Scored =>
        score.v = Max(0, 100 - TableQ(triplet.qflag) - TableS(triplet.sflag)
                             - TableM(triplet.mflag))

C9_Witness ==
    /\ Scored
    /\ triplet = [mflag |-> "P", qflag |-> "X", sflag |-> "S"]
    /\ score.v = 15

\* C10: an empty flag is never treated as a failure: the empty quality flag
\* is no quality issue, and an empty measurement, quality or source flag
\* causes no deduction, so the all-empty triplet scores 100.
C10_EmptyFlagNeverPenalised ==
    Scored =>
        /\ ~is_quality_issue("")
        /\ score.v =
             Max(0, 100
                    - (IF triplet.qflag = "" THEN 0 ELSE TableQ(triplet.qflag))
                    - (IF triplet.sflag = "" THEN 0 ELSE TableS(triplet.sflag))
                    - (IF triplet.mflag = "" THEN 0 ELSE TableM(triplet.mflag)))

(***************************************************************************)
(* Properties of detect_element_anomaly (SpecClassify)                     *)
(***************************************************************************)

Classified == anomaly # Pending

\* A baseline handed in with an integer mean and an integer std: the two.
MeanOf(base) == base.mean.num
StdOf(base) == CHOOSE s \in 0..base.std.sq.num : s * s = base.std.sq.num

\* abs(value - mean) / std > n / d, on integers.
DeviatesBy(n, d) ==
    Abs(value.v - MeanOf(baseline)) * d > n * StdOf(baseline)

\* C1: for a non-missing value and a valid baseline, an anomaly is returned
\* if and only if abs(z) > confidence_threshold, z = (value - mean) / std:
\* the comparison is strict and on the z-score itself, and abs(z) <=
\* confidence_threshold gives None.
C1_AnomalyIffAboveThreshold ==
    (Classified /\ ~isna(value) /\ baseline # None) =>
        (anomaly # None <=>
            DeviatesBy(confidence_threshold.num, confidence_threshold.den))

C1_Witness ==
    /\ Classified
    /\ value = Float(70)
    /\ baseline = GivenBaseline(50, 10)
    /\ confidence_threshold = Frac(2, 1)
    /\ anomaly = None

\* C2: a returned anomaly is High when z > 0 and Low otherwise, and extreme
\* when abs(z) > 3, moderate when 2 < abs(z) <= 3, mild otherwise; with
\* mean 50, std 10, threshold 2 the value 75 gives z = 2.5, High, moderate.
C2_DirectionAndSeverity ==
    /\ (Classified /\ anomaly # None) =>
        /\ anomaly.anomaly_type =
             (IF value.v > MeanOf(baseline) THEN "High" ELSE "Low")
        /\ anomaly.severity =
             (IF DeviatesBy(3, 1) THEN "extreme"
              ELSE IF DeviatesBy(2, 1) THEN "moderate"
              ELSE "mild")
    /\ (Classified /\ value = Float(75) /\ baseline = GivenBaseline(50, 10)
            /\ confidence_threshold = Frac(2, 1)) =>
        /\ anomaly # None
        /\ anomaly.z_score.sgn = 1
        /\ 4 * anomaly.z_score.sq.num = 25 * anomaly.z_score.sq.den
        /\ anomaly.anomaly_type = "High"
        /\ anomaly.severity = "moderate"

C2_Witness ==
    /\ Classified
    /\ value = Float(75)
    /\ baseline = GivenBaseline(50, 10)
    /\ confidence_threshold = Frac(2, 1)
    /\ anomaly # None
    /\ anomaly.severity = "moderate"

\* The boundary case of C3: mean 50, std 10, threshold 2, value 80 (z = 3).
AtSeverityBoundary ==
    /\ Classified
    /\ value = Float(80)
    /\ baseline = GivenBaseline(50, 10)
    /\ confidence_threshold = Frac(2, 1)

\* C3 as stated: the value whose z-score is exactly 3.0 is an anomaly of
\* severity extreme.
C3_BoundaryIsExtreme ==
    AtSeverityBoundary => (anomaly # None /\ anomaly.severity = "extreme")

\* C3, amended: the value whose z-score is exactly 3.0 is returned as a High
\* anomaly of severity moderate (extreme begins strictly above 3).
C3_BoundaryIsModerate ==
    AtSeverityBoundary =>
        /\ anomaly # None
        /\ anomaly.z_score.sgn = 1
        /\ anomaly.z_score.sq.num = 9 * anomaly.z_score.sq.den
        /\ anomaly.anomaly_type = "High"
        /\ anomaly.severity = "moderate"

C3_Witness ==
    /\ AtSeverityBoundary
    /\ anomaly # None
    /\ anomaly.value = Float(80)

\* C7: no anomaly is returned when the value is missing or the baseline is
\* absent, whatever the element and the threshold.
C7_NoAnomalyWithoutValueOrBaseline ==
    (Classified /\ (isna(value) \/ baseline = None)) => anomaly = None

C7_Witness ==
    /\ Classified
    /\ isna(value)
    /\ baseline # None
    /\ anomaly = None

\* The family an element belongs to: by its GHCN name, or by the name of
\* the converted column get_available_elements returns for it.
FamilyOf(elem) ==
    IF elem \in temperature_elements
          \cup {"TMAX_F", "TMIN_F", "TAVG_F", "ADPT_F"} THEN "temperature"
    ELSE IF elem \in precipitation_elements \cup {"PRCP_IN"}
    THEN "precipitation"
    ELSE IF elem \in wind_elements THEN "wind"
    ELSE "generic"

\* C26: the explanation of an anomaly uses the phrasing of the element's
\* family: temperature, precipitation or wind, and the generic template
\* only for an element outside those three families.
C26_ExplanationByFamily ==
    (Classified /\ anomaly # None) =>
        anomaly.explanation.template = FamilyOf(element)

(***************************************************************************)
(* Properties of calculate_element_baseline (SpecBaseline)                 *)
(***************************************************************************)

BaselineComputed == baseline # Pending

\* The rows of the table within 30 days of the target date, the target date
\* itself excepted, that hold a reading.
WindowRows ==
    {i \in 1..Len(data) :
        /\ Abs(data[i].DATE - target_date) <= 30
        /\ data[i].DATE # target_date
        /\ ~data[i].val.nan}

AllReadingsEqual ==
    \A i, j \in WindowRows : data[i].val.v = data[j].val.v

\* C4: the result is None whenever fewer than 5 readings lie in the window
\* or their standard deviation is zero; a baseline that is returned has
\* sample_size >= 5 and std > 0.
C4_NoDegenerateBaseline ==
    BaselineComputed =>
        /\ (Cardinality(WindowRows) < 5 \/ AllReadingsEqual) => baseline = None
        /\ baseline # None =>
             /\ baseline.sample_size >= 5
             /\ baseline.std.sq.num > 0
             /\ baseline.std.sq.den > 0
             /\ baseline.mean.den > 0

C4_Witness ==
    /\ BaselineComputed
    /\ Cardinality(WindowRows) >= 5
    /\ AllReadingsEqual
    /\ baseline = None

\* C5: the sample is exactly the readings of the rows dated within
\* [d - 30, d + 30] and not dated d: both end days are in, the day d is out.
C5_SampleIsWindowWithoutTarget ==
    BaselineComputed =>
        /\ Len(element_data) = Cardinality(WindowRows)
        /\ {element_data[j] : j \in 1..Len(element_data)}
             = {data[i] : i \in WindowRows}
        /\ baseline # None =>
             /\ baseline.sample_size = Cardinality(WindowRows)
             /\ baseline.mean = Frac(SumSeq([j \in 1..Len(element_data)
                                               |-> element_data[j].val.v]),
                                     Cardinality(WindowRows))

C5_Witness ==
    /\ BaselineComputed
    /\ baseline # None
    /\ \E i \in WindowRows : data[i].DATE = target_date - 30
    /\ \E i \in WindowRows : data[i].DATE = target_date + 30
    /\ \E i \in 1..Len(data) : data[i].DATE = target_date /\ ~data[i].val.nan
    /\ \E i \in 1..Len(data) : Abs(data[i].DATE - target_date) = 31
                                 /\ ~data[i].val.nan

(***************************************************************************)
(* Properties of detect_comprehensive_anomalies (Spec)                     *)
(***************************************************************************)

Analysed == results # Pending

\* C6: every baseline the analysis of station S uses is computed from rows
\* of station S only: no row of another station enters a baseline sample.
C6_BaselineFromOwnStationOnly ==
    Analysed => \A r \in sampled : r.STATION = request.station_id

\* The rows of the table that lie in the requested date range.
InRange ==
    {i \in 1..Len(data) :
        data[i].DATE >= request.start_date /\ data[i].DATE <= request.end_date}

\* C23: when the table holds no observation in the requested date range,
\* the call returns (it does not raise) a result that carries an 'error'
\* message and the station id, and neither anomalies nor a summary.
C23_EmptyRangeIsAnErrorResult ==
    (Analysed /\ InRange = {}) =>
        /\ results.tag = "error"
        /\ {"error", "station_id"} \subseteq DOMAIN results
        /\ results.station_id = request.station_id
        /\ DOMAIN results \cap {"anomalies", "summary", "element_summaries"} = {}

\* A table with observations, none of them in the requested range, has
\* been analysed.
C23_Witness ==
    /\ Analysed
    /\ data # <<>>
    /\ InRange = {}
    /\ results.tag = "error"

\* The anomaly records of the report, when the call returned one.
ReportedAnomalies ==
    IF Analysed /\ results.tag = "report"
    THEN {results.anomalies.comprehensive.anomalies[i] :
             i \in 1..Len(results.anomalies.comprehensive.anomalies)}
    ELSE {}

\* C24: every anomaly record of the comprehensive path carries the fields
\* DATE (an ISO-8601 YYYY-MM-DD string), STATION, VALUE, Z_SCORE, TYPE,
\* VARIABLE, EXPLANATION and STATISTICS with mean, std and threshold.
C24_RecordFields ==
    \A a \in ReportedAnomalies :
        /\ {"DATE", "STATION", "VALUE", "Z_SCORE", "TYPE", "VARIABLE",
            "EXPLANATION", "STATISTICS"} \subseteq DOMAIN a
        /\ a.DATE.format = "%Y-%m-%d"
        /\ {"mean", "std", "threshold"} \subseteq DOMAIN a.STATISTICS

(***************************************************************************)
(* Properties of parse_flags (SpecParse)                                   *)
(***************************************************************************)

Parsed == parsed # Pending

\* The first three comma-separated fields of a string, stripped; a field the
\* string does not have is empty.
FieldOf(s, k) ==
    LET parts == split(strip(s), ",")
    IN  IF Len(parts) >= k THEN strip(parts[k]) ELSE <<>>

HasComma(s) == \E i \in 1..Len(s) : s[i] = ","

\* C11: parse_flags never fails and always returns a triplet with exactly
\* the keys mflag, qflag, sflag: an empty or missing (NaN/None) attribute
\* gives the all-empty triplet, a bare number gives empty mflag and qflag
\* with the number as sflag, a comma-delimited string assigns its first three
\* fields in order (absent fields empty), and any other string still gives a
\* triplet.
C11_ParseNeverFails ==
    Parsed =>
        /\ parsed.tag = "dict"
        /\ DOMAIN parsed = {"tag", "mflag", "qflag", "sflag"}
        /\ (pd_isna(attribute) \/ attribute = PyStr(<<>>))
               => parsed = FlagDict(<<>>, <<>>, <<>>)
        /\ is_number(attribute) /\ ~pd_isna(attribute)
               => parsed.mflag = <<>> /\ parsed.qflag = <<>>
                  /\ parsed.sflag # <<>>
        /\ (attribute # None /\ attribute.type = "str"
                /\ HasComma(attribute.s))
               => parsed = FlagDict(FieldOf(attribute.s, 1),
                                    FieldOf(attribute.s, 2),
                                    FieldOf(attribute.s, 3))

\* A flag character: a non-empty key of the flag table of its field.
FlagField(f, table) == f = <<>> \/ (Len(f) = 1 /\ f[1] \in table)

\* A well-formed triplet string: exactly three fields, each empty or a single
\* flag character.
WellFormed(s) ==
    /\ Len(SelectSeq(s, LAMBDA c : c = ",")) = 2
    /\ LET parts == split(s, ",")
       IN  /\ FlagField(parts[1], measurement_flags)
           /\ FlagField(parts[2], quality_flags)
           /\ FlagField(parts[3], source_flags)

\* C12: for every well-formed comma-delimited triplet string s, joining
\* parse_flags(s)['mflag'], ['qflag'] and ['sflag'] with commas gives s back.
C12_RoundTrip ==
    (Parsed /\ attribute # None /\ attribute.type = "str"
        /\ WellFormed(attribute.s))
        => /\ parsed.tag = "dict"
           /\ ATTRIBUTES(parsed.mflag, parsed.qflag, parsed.sflag)
                  = attribute.s

C12_Witness ==
    /\ Parsed
    /\ attribute = PyStr(<<"B", ",", "D", ",", "0">>)
    /\ parsed = FlagDict(<<"B">>, <<"D">>, <<"0">>)

(***************************************************************************)
(* Properties of the QA audit suite (SpecQA)                               *)
(***************************************************************************)

Audited == qa_report # Pending

\* The findings of a list that name a column.
FindingsFor(list, col) == SelectSeq(list, LAMBDA f : f.column = col)

\* The non-missing readings of a column of the audited table.
SamplesOf(col) ==
    dropna([i \in 1..Len(audited.df.rows) |-> audited.df.rows[i][col]])

\* C13: comprehensive_qa_check reports total_issues as the sum of the lengths
\* of the six finding lists and qa_score as max(0, 100 - 10 * total_issues);
\* qa_score lies in [0, 100] and is 100 exactly when no check found anything.
C13_ScoreFromFindings ==
    Audited =>
        LET total == Len(qa_report.format_issues)
                     + Len(qa_report.physical_limits)
                     + Len(qa_report.climatological_limits)
                     + Len(qa_report.temporal_persistence)
                     + Len(qa_report.internal_consistency)
                     + Len(qa_report.neighbor_comparison)
        IN  /\ qa_report.total_issues = total
            /\ qa_report.qa_score
                 = (IF 100 - 10 * total > 0 THEN 100 - 10 * total ELSE 0)
            /\ qa_report.qa_score \in 0..100
            /\ qa_report.qa_score = 100 <=> total = 0

C13_Witness ==
    /\ Audited
    /\ qa_report.total_issues > 10
    /\ qa_report.qa_score = 0
    /\ qa_report.internal_consistency # <<>>

\* k + 1 equal readings in a row somewhere in s.
RunLongerThan(s, k) ==
    \E i \in 1..(Len(s) - k) : \A j \in i..(i + k) : s[j] = s[i]

\* C14: temporal_persistence_check reports exactly one finding for TMAX (for
\* TMIN) when the longest run of equal consecutive values of that series is
\* longer than 7, and none for it otherwise; a TMAX series of 10 identical
\* values gives exactly one finding.
C14_PersistenceIffRunOver7 ==
    Audited =>
        \A col \in {"TMAX", "TMIN"} :
            Len(FindingsFor(qa_report.temporal_persistence, col))
                = (IF RunLongerThan(SamplesOf(col), 7) THEN 1 ELSE 0)

\* Some sample of the column lies more than 3 standard deviations from the
\* column's mean (on the Fahrenheit values the check computes).
HasExtreme(col) ==
    LET samples == [i \in 1..Len(SamplesOf(col)) |->
                       to_fahrenheit(SamplesOf(col)[i])]
    IN  \E i \in 1..Len(samples) : beyond_3_std(samples[i], samples)

\* C15: climatological_limits_check engages for an element from 30
\* non-missing samples on: with 30 samples or more, a value more than 3
\* standard deviations from the mean gives a finding; with fewer than 30
\* samples there is never a finding.
C15_ClimatologicalFrom30 ==
    Audited =>
        \A col \in {"TMAX", "TMIN"} :
            LET n == Len(SamplesOf(col))
                found == FindingsFor(qa_report.climatological_limits, col) # <<>>
            IN  /\ (n >= 30 /\ HasExtreme(col)) => found
                /\ n < 30 => ~found

\* The days of the audited table, and the table holding only one of them.
Days == {audited.df.rows[i] : i \in 1..Len(audited.df.rows)}
OneDay(r) == [audited.df EXCEPT !.rows = <<r>>]

Inverted(r) == ~isna(r.TMAX) /\ ~isna(r.TMIN) /\ r.TMAX.v < r.TMIN.v
RangeOver50(r) == ~isna(r.TMAX) /\ ~isna(r.TMIN) /\ r.TMAX.v - r.TMIN.v > 500

\* C16: internal_consistency_check gives exactly one finding for a table in
\* which some day has TMAX < TMIN and no day has a TMAX - TMIN range above
\* 50 degrees Celsius, however many days are inverted; and no single day
\* gives both the TMAX < TMIN finding and the extreme-range finding.
C16_OneConsistencyFinding ==
    Audited =>
        /\ ((\E r \in Days : Inverted(r)) /\ (\A r \in Days : ~RangeOver50(r)))
               => Len(qa_report.internal_consistency) = 1
        /\ \A r \in Days : Len(internal_consistency_check(OneDay(r))) <= 1

C16_Witness ==
    /\ Audited
    /\ Len(audited.df.rows) = 2
    /\ \A r \in Days : r.TMAX = Float(200) /\ r.TMIN = Float(300)
    /\ qa_report.internal_consistency
           = <<Finding("consistency", "TMAX < TMIN", 2)>>

(***************************************************************************)
(* Properties of the detector's lifecycle (SpecDetector)                   *)
(***************************************************************************)

\* The number of issues the audit finds in a table.
IssuesOf(df) == comprehensive_qa_check(df, None).total_issues

\* C17: train_models with optimize enabled configures all three models with
\* contamination (nu) 0.15 when the QA audit of the table being trained on
\* finds more than 5 issues and with 0.10 otherwise, whatever calls were made
\* on the detector before and also when the table is already preprocessed.
C17_ContaminationFromTrainedTable ==
    (call # None /\ call.op = "train_models" /\ "optimize" \in call.flags
        /\ ~Raised(call.ret))
        => /\ Cardinality(detector.models) = 3
           /\ \A m \in detector.models :
                 m.contamination = (IF IssuesOf(call.df) > 5
                                    THEN Frac(15, 100) ELSE Frac(10, 100))

\* C18: while is_trained is false, detect_ml_anomalies and save_models fail
\* with ValueError, run no inference and write no file.
C18_UntrainedCallsFail ==
    [][(~detector.is_trained /\ call' # None
            /\ call'.op \in {"detect_ml_anomalies", "save_models"})
          => /\ call'.ret = Raise("ValueError")
             /\ disk' = disk
             /\ detector' = detector]_vars

C18_Witness ==
    /\ call # None
    /\ call.op = "save_models"
    /\ call.ret = Raise("ValueError")
    /\ ~detector.is_trained
    /\ detector.models # {}

\* C19: detect_anomalies with use_ml=True on a detector that is not trained
\* gives the caller an explicit error, never a normal result from which the
\* ML outlier sets are missing.
C19_UntrainedDetectIsAnError ==
    (call # None /\ call.op = "detect_anomalies" /\ "use_ml" \in call.flags
        /\ ~detector.is_trained)
        => Raised(call.ret)

\* C22: preprocess_data, detect_ml_anomalies and detect_anomalies (which
\* runs prepare_features and detect_statistical_anomalies) are free of side
\* effects: a call leaves qa_results, feature_columns, scaler, models and
\* is_trained of the detector as they were.
C22_DetectionLeavesDetectorUnchanged ==
    [][(call' # None
            /\ call'.op \in {"preprocess_data", "detect_ml_anomalies",
                             "detect_anomalies"})
          => detector' = detector]_vars

\* C29: in every state reached by calls on one detector, those that raise
\* part-way included, is_trained implies that the scaler is set, that
\* models holds the three ensemble entries, and that the scaler and the
\* fitted models come from the same train or load (were fitted on the same
\* feature matrix) and feature_columns is set.
C29_TrainedMeansConsistent ==
    detector.is_trained =>
        /\ detector.scaler # None
        /\ detector.feature_columns # None
        /\ {m.name : m \in detector.models}
               = {"Isolation Forest", "Local Outlier Factor", "One-Class SVM"}
        /\ \A m \in detector.models :
              m.fitted_on # None => m.fitted_on = detector.scaler.fitted_on

\* C30: a load_models call that fails because a file of the model directory
\* is missing leaves models, scaler, feature_columns, qa_results and
\* is_trained as they were before the call.
C30_FailedLoadChangesNothing ==
    [][(/\ call' # None
        /\ call'.op = "load_models"
        /\ \E f \in DOMAIN disk : disk[f] = NoFile)
          => detector' = detector]_vars

(***************************************************************************)
(* Properties of the /api/anomaly-detection handler (SpecApp)              *)
(***************************************************************************)

\* The last request was answered with a report that holds ML results.
ServedWithML ==
    /\ call # None
    /\ call.response.tag = "report"
    /\ "ml" \in call.response.results.keys

\* C20: over any sequence of /api/anomaly-detection requests, the ensemble
\* that ran a request's ML inference was trained on that request's
\* station and date-range selection (when the selection differs from the one
\* last trained on, the models are retrained before the inference).
C20_InferenceOnOwnSelection ==
    ServedWithML =>
        LET ml == call.response.results.ml
        IN  \A m \in ml.models :
                m.fitted_on # None => m.fitted_on.rows = ml.X.rows

(***************************************************************************)
(* Properties of the source-flag tables (SpecSource)                       *)
(***************************************************************************)

Ranked == ranked # Pending

\* C27: source authority and source trust are monotone with each other: of
\* two source flags, when the one with the higher priority rank number (the
\* less authoritative one) is a high-quality source, so is the one with the
\* lower rank number; a more authoritative source is never the only one of
\* the two to be charged the 15 points.
C27_AuthorityImpliesTrust ==
    Ranked =>
        (ranked.priority[1] < ranked.priority[2] /\ ranked.high_quality[2]
            => ranked.high_quality[1])

\* C28: get_source_priority returns the list length only for unknown source
\* flags: every non-empty flag of the source-flag table ranks strictly below
\* the list length, and two distinct known flags have distinct ranks.
C28_KnownFlagsAreRanked ==
    Ranked =>
        /\ \A i \in 1..2 :
              sflags[i] # "" /\ sflags[i] \in source_flags
                  => ranked.priority[i] < Len(source_priority)
        /\ (/\ sflags[1] # sflags[2]
            /\ \A i \in 1..2 : sflags[i] # "" /\ sflags[i] \in source_flags)
               => ranked.priority[1] # ranked.priority[2]

(***************************************************************************)
(* Properties of calculate_station_baseline (SpecStation)                  *)
(***************************************************************************)

StationDone == station_baseline # Pending

\* The distance in days between two days of the (common) year, around the
\* turn of the year too.
DayOfYearDistance(a, b) ==
    LET diff == IF dayofyear(a) >= dayofyear(b)
                THEN dayofyear(a) - dayofyear(b)
                ELSE dayofyear(b) - dayofyear(a)
    IN  IF diff <= 365 - diff THEN diff ELSE 365 - diff

\* C25: the sample of calculate_station_baseline for target date d is exactly
\* the rows of the station's table, of any year, whose day-of-year is within
\* 15 days of d's day-of-year (so it reaches into the neighbouring months).
C25_SampleIsDayOfYearWindow ==
    StationDone =>
        station_sample =
            SelectSeq(historical_data, LAMBDA r :
                DayOfYearDistance(r.DATE, station_date) <= WindowDays)

(***************************************************************************)
(* Properties of overlapping requests (SpecConcurrent)                     *)
(***************************************************************************)

\* The audit of the data of the request on thread t.
OwnAudit(t) == comprehensive_qa_check(inflight[t].filtered_data, None)

\* The request on thread t was answered with a report.
Reported(t) ==
    /\ inflight[t].pc = "done"
    /\ inflight[t].response.tag = "report"

\* C21: when two requests for different stations overlap, the qa_results
\* and the data_quality_score each of them reports, and the contamination
\* rate each of them trains with, are those of its own data.
C21_RequestsUseTheirOwnAudit ==
    inflight[1].request.station_id # inflight[2].request.station_id =>
        \A t \in Threads :
            /\ Reported(t) =>
                 /\ inflight[t].response.results.qa_results = OwnAudit(t)
                 /\ inflight[t].response.results.qa_results.qa_score =
                        OwnAudit(t).qa_score
            /\ inflight[t].contamination_rate # None =>
                 inflight[t].contamination_rate =
                     IF OwnAudit(t).total_issues > 5
                     THEN Frac(15, 100) ELSE Frac(10, 100)

====
